---- MODULE Spec2Model ----
(***************************************************************************)
(* A model of the powermux HTTP request multiplexer: the routing tree      *)
(* (Route), registration (Route.Route / Route.create), lookup              *)
(* (Route.execute / Route.getExecution / Route.getHandler), the execution  *)
(* record free-list, the middleware chain composer and the ServeMux        *)
(* facade.                                                                 *)
(*                                                                         *)
(* Go strings are sequences of one-character strings, so that splitting,   *)
(* trimming, prefix tests and byte-wise comparison are computed as the     *)
(* code computes them.  A tree is the value of its root node, which holds  *)
(* its children; a *Route is the place of a node in its tree: the patterns *)
(* of the nodes from the root to it.                                       *)
(*                                                                         *)
(* State:                                                                  *)
(*   baseRoute   ServeMux.baseRoute, the default tree                      *)
(*   hostRoutes  ServeMux.hostRoutes, as the set of its [host, tree] pairs *)
(*   pool        the records of the execution free-list                    *)
(*   last        the call made last, with what it returned or did          *)
(*   nregs       the number of registration calls made                     *)
(*   routed      the Route calls recorded, with the node each returned     *)
(*   inflight    the requests being looked up at the same time, one for    *)
(*               each goroutine that serves requests                       *)
(*   heap        the execution records and the path-segment buffers that   *)
(*               goroutines share through the two sync.Pools, each with    *)
(*               its identity, and the ones that are free                  *)
(***************************************************************************)
EXTENDS Integers, Sequences, FiniteSets, TLC

VARIABLES baseRoute, hostRoutes, pool, last, nregs, routed, inflight, heap

vars == <<baseRoute, hostRoutes, pool, last, nregs, routed, inflight, heap>>

-----------------------------------------------------------------------------
(* Strings *)

\* The characters used.
Chars == {"%", "*", "/", "2", "5", ":", "A", "F", "a", "b", "c", "i", "j", "k", "u", "x", "z"}

\* The byte of a character, for Go's byte-wise string order.
Byte(c) ==
  CASE c = "%" -> 37 [] c = "*" -> 42 [] c = "/" -> 47 [] c = "2" -> 50
    [] c = "5" -> 53 [] c = "A" -> 65
    [] c = ":" -> 58 [] c = "F" -> 70 [] c = "a" -> 97 [] c = "b" -> 98
    [] c = "c" -> 99 [] c = "i" -> 105 [] c = "j" -> 106 [] c = "k" -> 107
    [] c = "u" -> 117 [] c = "x" -> 120 [] c = "z" -> 122

Min(S) == CHOOSE x \in S : \A y \in S : x <= y

\* s < t on Go strings: lexicographic on bytes, a proper prefix is smaller.
RECURSIVE StrLess(_, _)
StrLess(s, t) ==
  IF t = <<>> THEN FALSE
  ELSE IF s = <<>> THEN TRUE
  ELSE IF Byte(Head(s)) # Byte(Head(t)) THEN Byte(Head(s)) < Byte(Head(t))
  ELSE StrLess(Tail(s), Tail(t))

\* strings.HasPrefix
HasPrefix(s, p) == Len(s) >= Len(p) /\ SubSeq(s, 1, Len(p)) = p

\* strings.HasSuffix
HasSuffix(s, p) == Len(s) >= Len(p) /\ SubSeq(s, Len(s) - Len(p) + 1, Len(s)) = p

\* TrimRight that removes one character at most (strings.TrimSuffix).
TrimRightOnce(s, c) ==
  IF s # <<>> /\ s[Len(s)] = c THEN SubSeq(s, 1, Len(s) - 1) ELSE s

\* strings.TrimRight(s, c) for a one-character cutset
RECURSIVE TrimRight(_, _)
TrimRight(s, c) ==
  IF s # <<>> /\ s[Len(s)] = c THEN TrimRight(SubSeq(s, 1, Len(s) - 1), c) ELSE s

\* strings.TrimLeft(s, c) for a one-character cutset
RECURSIVE TrimLeft(_, _)
TrimLeft(s, c) ==
  IF s # <<>> /\ Head(s) = c THEN TrimLeft(Tail(s), c) ELSE s

\* strings.Split(s, "/"): the parts between every separator, empty parts kept.
RECURSIVE SplitFrom(_, _, _)
SplitFrom(s, i, cur) ==
  IF i > Len(s) THEN <<cur>>
  ELSE IF s[i] = "/" THEN <<cur>> \o SplitFrom(s, i + 1, <<>>)
  ELSE SplitFrom(s, i + 1, Append(cur, s[i]))

Split(s) == SplitFrom(s, 1, <<>>)

\* The hexadecimal digits among the characters used, and their values.
IsHex(c) == c \in {"2", "5", "A", "F", "a", "b", "c"}

UnHex(c) ==
  CASE c = "2" -> 2 [] c = "5" -> 5 [] c = "A" -> 10 [] c = "F" -> 15 [] c = "a" -> 10 [] c = "b" -> 11 [] c = "c" -> 12

\* The character of a decoded byte; a byte outside the characters used is
\* written as its number.
ByteChar(n) ==
  IF \E c \in Chars : Byte(c) = n
    THEN CHOOSE c \in Chars : Byte(c) = n
    ELSE ToString(n)

\* url.PathUnescape, first pass: every % is followed by two hex digits.
EscapeOk(s) ==
  \A i \in 1..Len(s) :
    s[i] = "%" => (i + 2 <= Len(s) /\ IsHex(s[i + 1]) /\ IsHex(s[i + 2]))

RECURSIVE UnescapeFrom(_, _)
UnescapeFrom(s, i) ==
  IF i > Len(s) THEN <<>>
  ELSE IF s[i] = "%"
    THEN <<ByteChar(16 * UnHex(s[i + 1]) + UnHex(s[i + 2]))>> \o UnescapeFrom(s, i + 3)
    ELSE <<s[i]>> \o UnescapeFrom(s, i + 1)

\* url.PathUnescape: [value, err]; on an error the value is the empty string.
PathUnescape(s) ==
  IF EscapeOk(s) THEN [value |-> UnescapeFrom(s, 1), err |-> FALSE]
  ELSE [value |-> <<>>, err |-> TRUE]

\* URL.EscapedPath of a path that was assigned to URL.Path: of the
\* characters used, "%" and "*" are escaped, the others are kept as they are.
RECURSIVE EscapePath(_)
EscapePath(s) ==
  IF s = <<>> THEN <<>>
  ELSE (CASE Head(s) = "%" -> <<"%", "2", "5">>
          [] Head(s) = "*" -> IF s = <<"*">> THEN <<"*">> ELSE <<"%", "2", "A">>
          [] OTHER -> <<Head(s)>>) \o EscapePath(Tail(s))

\* URL.RequestURI of a URL with this path and no query: the escaped path,
\* or "/" when it is empty.
RequestURI(path) == IF EscapePath(path) = <<>> THEN <<"/">> ELSE EscapePath(path)

-----------------------------------------------------------------------------
(* Verb flags *)

Methods == {"GET", "HEAD", "POST", "PUT", "PATCH", "DELETE", "CONNECT", "OPTIONS"}

methodAny == "ANY"

notFound == "NOT_FOUND"

\* verbFlag is a uint8: the bits of a flag, and the flag of a set of bits.
Bits(f) == {i \in 0..7 : (f \div (2 ^ i)) % 2 = 1}

RECURSIVE FromBits(_)
FromBits(B) ==
  IF B = {} THEN 0 ELSE LET i == CHOOSE x \in B : TRUE IN (2 ^ i) + FromBits(B \ {i})

BitAnd(a, b) == FromBits(Bits(a) \cap Bits(b))

BitOr(a, b) == FromBits(Bits(a) \cup Bits(b))

BitNot(a) == FromBits((0..7) \ Bits(a))

flagAny == BitNot(0)

\* Matches with a flag that has to be the verb's own.
MatchesExact(f, v) == IF v = 0 THEN FALSE ELSE f = v

\* verbFlag.Matches: never match a zero flag.
Matches(f, v) == IF v = 0 THEN FALSE ELSE BitAnd(f, v) = v

KnownVerb(verb) == verb \in Methods

\* getVerbFlag for a known verb (an unknown verb panics: see KnownVerb).
getVerbFlag(verb) ==
  CASE verb = "GET" -> 1 [] verb = "HEAD" -> 2 [] verb = "POST" -> 4
    [] verb = "PUT" -> 8 [] verb = "PATCH" -> 16 [] verb = "DELETE" -> 32
    [] verb = "CONNECT" -> 64 [] verb = "OPTIONS" -> 128

-----------------------------------------------------------------------------
(* Handlers and middleware values *)

\* The nil http.Handler.
NilHandler == <<>>

\* The handler a registration call passes: named after the call.
HandlerOf(host, path, method) == <<"handler", host, path, method>>

\* http.NotFoundHandler(), which NewServeMux installs.
DefaultNotFound == <<"http.NotFoundHandler">>

\* methodNotAllowedHandler(methods); the order of the methods is the map's
\* iteration order, which is unspecified: the value holds them as a set.
methodNotAllowedHandler(methods) == <<"405", methods>>

\* The orders a range over a map with these keys may take.
RECURSIVE Orders(_)
Orders(keys) ==
  IF keys = {} THEN {<<>>}
  ELSE UNION {{<<k>> \o o : o \in Orders(keys \ {k})} : k \in keys}

\* strings.Join(h, sep), each element and each separator one item of the
\* result.
RECURSIVE Join(_, _)
Join(h, sep) ==
  IF Len(h) <= 1 THEN h ELSE <<Head(h), sep>> \o Join(Tail(h), sep)

\* A handler that writes nothing this model looks at.
NothingWritten == [status |-> 0, allow |-> <<>>]

\* methodNotAllowedHandler.ServeHTTP: what a handler writes, the status and
\* the Allow header; the 405 handler holds its methods in the order
\* Route.methodNotAllowed ranged over the handlers map, which is any order.
Writes(hd) ==
  IF Len(hd) = 2 /\ hd[1] = "405"
    THEN {[status |-> 405, allow |-> Join(h, ", ")] : h \in Orders(hd[2])}
    ELSE {NothingWritten}

\* A Middleware value: its name and how many times it calls next.
MiddlewareOf(name, calls) == [name |-> name, calls |-> calls]

-----------------------------------------------------------------------------
(* The routing tree *)

\* The nil *Route (no place of a node is this value).
Nil == << <<"nil">> >>

\* make(map[string]http.Handler): a key the map does not hold has the nil
\* handler (the handlers registered are not nil).
NoHandlers ==
  [GET |-> NilHandler, HEAD |-> NilHandler, POST |-> NilHandler, PUT |-> NilHandler,
   PATCH |-> NilHandler, DELETE |-> NilHandler, CONNECT |-> NilHandler,
   OPTIONS |-> NilHandler, ANY |-> NilHandler, NOT_FOUND |-> NilHandler]

\* h, ok := r.handlers[m]: ok
Has(node, m) == node.handlers[m] # NilHandler

\* newRoute: a node with no handlers, middleware or children; its pattern ""
\* matches only the top level node.  paramChild and wildcardChild hold the
\* child when there is one.
newRoute ==
  [pattern |-> <<>>, fullPath |-> <<>>, isParam |-> FALSE, paramName |-> <<>>,
   isWildcard |-> FALSE, middleware |-> <<>>, children |-> <<>>,
   paramChild |-> <<>>, wildcardChild |-> <<>>, handlers |-> NoHandlers]

\* Route.getChildren: the children in order of precedence.
getChildren(r) == r.children \o r.paramChild \o r.wildcardChild

\* childList.Less
Less(a, b) == StrLess(a.pattern, b.pattern)

\* sort.Sort(childList): insertion of each element into the sorted rest.
RECURSIVE InsertSorted(_, _)
InsertSorted(l, k) ==
  IF l = <<>> THEN <<k>>
  ELSE IF Less(k, Head(l)) THEN <<k>> \o l
  ELSE <<Head(l)>> \o InsertSorted(Tail(l), k)

\* SortChildren that leaves the children in the order they were appended.
KeepOrder(l) == l

RECURSIVE SortChildren(_)
SortChildren(l) ==
  IF l = <<>> THEN <<>> ELSE InsertSorted(SortChildren(Tail(l)), Head(l))

\* sort.Search(n, f) with f(i) == l[i].pattern >= pattern, on 0-based indexes.
RECURSIVE SortSearch(_, _, _, _)
SortSearch(l, pattern, i, j) ==
  IF i < j
    THEN LET m == (i + j) \div 2
         IN IF StrLess(l[m + 1].pattern, pattern)
              THEN SortSearch(l, pattern, m + 1, j)
              ELSE SortSearch(l, pattern, i, m)
    ELSE i

\* childList.Search: the child with this pattern when there is one (the
\* code's nil is the empty result).
Search(l, pattern) ==
  LET index == SortSearch(l, pattern, 0, Len(l))
  IN IF index < Len(l) /\ l[index + 1].pattern = pattern THEN <<l[index + 1]>> ELSE <<>>

\* The child of r a place's next pattern names: [in, at] says which field
\* of r holds it.
ChildSlot(r, pattern) ==
  LET lit == {i \in 1..Len(r.children) : r.children[i].pattern = pattern}
  IN IF lit # {} THEN [in |-> "children", at |-> Min(lit)]
     ELSE IF r.paramChild # <<>> /\ r.paramChild[1].pattern = pattern
       THEN [in |-> "paramChild", at |-> 1]
     ELSE [in |-> "wildcardChild", at |-> 1]

ChildAt(r, slot) ==
  IF slot.in = "children" THEN r.children[slot.at]
  ELSE IF slot.in = "paramChild" THEN r.paramChild[1]
  ELSE r.wildcardChild[1]

WithChild(r, slot, child) ==
  IF slot.in = "children" THEN [r EXCEPT !.children[slot.at] = child]
  ELSE IF slot.in = "paramChild" THEN [r EXCEPT !.paramChild = <<child>>]
  ELSE [r EXCEPT !.wildcardChild = <<child>>]

\* The node a *Route points to: loc is its place in the tree of root.
RECURSIVE NodeAt(_, _)
NodeAt(root, loc) ==
  IF Len(loc) = 1 THEN root
  ELSE NodeAt(ChildAt(root, ChildSlot(root, loc[2])), Tail(loc))

\* The tree after an assignment through a *Route: the node at loc is node.
RECURSIVE ReplaceAt(_, _, _)
ReplaceAt(root, loc, node) ==
  IF Len(loc) = 1 THEN node
  ELSE LET slot == ChildSlot(root, loc[2])
       IN WithChild(root, slot, ReplaceAt(ChildAt(root, slot), Tail(loc), node))

\* Route.create: descends the tree following path, creating nodes as
\* needed; [node, ret]: r afterwards, and the place of the target node
\* below r (nil when path does not start with r's pattern).
RECURSIVE create(_, _)
create(r, path) ==
  IF r.pattern # path[1] THEN [node |-> r, ret |-> Nil]
  ELSE IF Len(path) = 1 THEN [node |-> r, ret |-> <<r.pattern>>]
  ELSE
    LET kids == getChildren(r)
        hit == {i \in 1..Len(kids) : kids[i].pattern = path[2]}
    IN IF hit # {}
         THEN \* the first child that accepts the path
              LET slot == IF Min(hit) <= Len(r.children)
                            THEN [in |-> "children", at |-> Min(hit)]
                          ELSE IF r.paramChild # <<>> /\ Min(hit) = Len(r.children) + 1
                            THEN [in |-> "paramChild", at |-> 1]
                          ELSE [in |-> "wildcardChild", at |-> 1]
                  c == create(kids[Min(hit)], Tail(path))
              IN [node |-> WithChild(r, slot, c.node), ret |-> <<r.pattern>> \o c.ret]
       ELSE
         LET fresh == [newRoute EXCEPT !.pattern = path[2],
                                       !.fullPath = r.fullPath \o <<"/">> \o path[2]]
         IN IF HasPrefix(path[2], <<":">>)
              THEN \* a path parameter: saved as the parameter child
                   LET c == create([fresh EXCEPT !.isParam = TRUE,
                                                 !.paramName = TrimLeft(path[2], ":")],
                                   Tail(path))
                   IN [node |-> [r EXCEPT !.paramChild = <<c.node>>],
                       ret |-> <<r.pattern>> \o c.ret]
            ELSE IF path[2] = <<"*">>
              THEN \* a rooted subtree: go no deeper
                   [node |-> [r EXCEPT !.wildcardChild = <<[fresh EXCEPT !.isWildcard = TRUE]>>],
                    ret |-> <<r.pattern, path[2]>>]
            ELSE \* a regular child, appended and the children sorted
                   LET c == create(fresh, Tail(path))
                   IN [node |-> [r EXCEPT !.children = SortChildren(Append(@, c.node))],
                       ret |-> <<r.pattern>> \o c.ret]

\* The parts of the path Route.Route hands to create.
RouteParts(r, path) ==
  LET p1 == IF path[1] # "/" THEN <<"/">> \o path ELSE path
      p2 == IF p1 # <<"/">> THEN TrimRight(p1, "/") ELSE p1
      p3 == IF r.pattern # <<>> THEN r.pattern \o p2 ELSE p2
      parts == Split(p3)
  IN IF p3 = <<"/">> THEN Tail(parts) ELSE parts

\* Route.Route called on the node at loc of the tree of root: [tree, ret],
\* the tree afterwards and the place of the node of path, new or previously
\* existing.  (path is not empty: the code indexes path[0].)
Route(root, loc, path) ==
  LET r == NodeAt(root, loc)
      c == create(r, RouteParts(r, path))
  IN [tree |-> ReplaceAt(root, loc, c.node),
      ret |-> SubSeq(loc, 1, Len(loc) - 1) \o c.ret]

\* methodNotAllowed with every key of the handlers map taken for a method.
methodNotAllowedAllKeys(node) ==
  LET methods == {m \in Methods \cup {methodAny, notFound} : Has(node, m)}
  IN IF methods # {} THEN methodNotAllowedHandler(methods) ELSE NilHandler

\* Route.methodNotAllowed: the 405 handler of a node, nil when no method
\* is allowed on it.
methodNotAllowed(node) ==
  LET methods == {m \in Methods : Has(node, m)}
  IN IF methods # {} THEN methodNotAllowedHandler(methods) ELSE NilHandler

-----------------------------------------------------------------------------
(* The execution record and its free-list *)

\* createExecution; params, a map, is the set of its [name, value] entries.
createExecution ==
  [handler |-> NilHandler, notFound |-> NilHandler, middleware |-> <<>>,
   params |-> {}, pattern |-> <<>>]

\* ex.params[name] = value
SetParam(params, name, value) ==
  {p \in params : p.name # name} \cup {[name |-> name, value |-> value]}

\* executionPool.Put: the record as it goes back to the free-list.
Put(ex) ==
  [ex EXCEPT !.middleware = <<>>, !.params = {},
             !.handler = NilHandler, !.notFound = NilHandler]

-----------------------------------------------------------------------------
(* Lookup *)

\* getHandler with the ANY handler tried before the GET handler of a HEAD
\* request.
getHandlerAnyFirst(node, method, ex) ==
  IF Has(node, method)
    THEN [ex EXCEPT !.handler = node.handlers[method]]
  ELSE IF Has(node, methodAny)
    THEN [ex EXCEPT !.handler = node.handlers[methodAny]]
  ELSE IF method = "HEAD" /\ Has(node, "GET")
    THEN [ex EXCEPT !.handler = node.handlers["GET"]]
  ELSE IF ex.handler = NilHandler
    THEN [ex EXCEPT !.handler = methodNotAllowed(node)]
  ELSE ex

\* Route.getHandler: choose the handler of the terminal node.
getHandler(node, method, ex) ==
  IF Has(node, method)
    THEN [ex EXCEPT !.handler = node.handlers[method]]
  ELSE IF method = "HEAD" /\ Has(node, "GET")
    THEN [ex EXCEPT !.handler = node.handlers["GET"]]
  ELSE IF Has(node, methodAny)
    THEN [ex EXCEPT !.handler = node.handlers[methodAny]]
  ELSE IF ex.handler = NilHandler
    THEN [ex EXCEPT !.handler = methodNotAllowed(node)]
  ELSE ex

\* MatchingMiddleware with the binding made last first.
RECURSIVE MatchingMiddlewareNewestFirst(_, _)
MatchingMiddlewareNewestFirst(mids, verb) ==
  IF mids = <<>> THEN <<>>
  ELSE MatchingMiddlewareNewestFirst(Tail(mids), verb)
         \o (IF Matches(Head(mids).verb, verb) THEN <<Head(mids).mid>> ELSE <<>>)

\* The middleware of a node whose verb matches, in the node's order.
RECURSIVE MatchingMiddleware(_, _)
MatchingMiddleware(mids, verb) ==
  IF mids = <<>> THEN <<>>
  ELSE (IF Matches(Head(mids).verb, verb) THEN <<Head(mids).mid>> ELSE <<>>)
         \o MatchingMiddleware(Tail(mids), verb)

\* Visit with the not found handler of the first node that has one kept.
VisitFirstNotFound(node, method, pathParts, ex) ==
  LET ex1 == [ex EXCEPT !.middleware =
                 @ \o MatchingMiddleware(node.middleware, getVerbFlag(method))]
      ex2 == IF Has(node, notFound) /\ ex1.notFound = NilHandler
               THEN [ex1 EXCEPT !.notFound = node.handlers[notFound]] ELSE ex1
      ex3 == IF method = "OPTIONS" /\ Has(node, "OPTIONS")
               THEN [ex2 EXCEPT !.handler = node.handlers["OPTIONS"]] ELSE ex2
  IN IF node.isParam
       THEN [ex3 EXCEPT !.params =
               SetParam(@, node.paramName, PathUnescape(pathParts[1]).value)]
       ELSE ex3

\* Visit with the OPTIONS handler of the first node that has one kept.
VisitFirstOptions(node, method, pathParts, ex) ==
  LET ex1 == [ex EXCEPT !.middleware =
                 @ \o MatchingMiddleware(node.middleware, getVerbFlag(method))]
      ex2 == IF Has(node, notFound)
               THEN [ex1 EXCEPT !.notFound = node.handlers[notFound]] ELSE ex1
      ex3 == IF method = "OPTIONS" /\ Has(node, "OPTIONS") /\ ex2.handler = NilHandler
               THEN [ex2 EXCEPT !.handler = node.handlers["OPTIONS"]] ELSE ex2
  IN IF node.isParam
       THEN [ex3 EXCEPT !.params =
               SetParam(@, node.paramName, PathUnescape(pathParts[1]).value)]
       ELSE ex3

\* One turn of getExecution's loop, up to the choice of the child: what
\* visiting the node cur adds to the execution.
Visit(node, method, pathParts, ex) ==
  LET ex1 == [ex EXCEPT !.middleware =
                 @ \o MatchingMiddleware(node.middleware, getVerbFlag(method))]
      ex2 == IF Has(node, notFound)
               THEN [ex1 EXCEPT !.notFound = node.handlers[notFound]] ELSE ex1
      ex3 == IF method = "OPTIONS" /\ Has(node, "OPTIONS")
               THEN [ex2 EXCEPT !.handler = node.handlers["OPTIONS"]] ELSE ex2
      ex4 == IF node.isParam
               THEN [ex3 EXCEPT !.params =
                       SetParam(@, node.paramName, PathUnescape(pathParts[1]).value)]
               ELSE ex3
  IN ex4

\* NextChild with the parameter child tried before the literal children.
NextChildParamFirst(curRoute, seg) ==
  LET child == Search(curRoute.children, seg)
  IN IF curRoute.paramChild # <<>> THEN curRoute.paramChild
     ELSE IF child # <<>> THEN child
     ELSE curRoute.wildcardChild

\* The child getExecution descends to for the next segment, when there is
\* one.
NextChild(curRoute, seg) ==
  LET child == Search(curRoute.children, seg)
  IN IF child # <<>> THEN child
     ELSE IF curRoute.paramChild # <<>> THEN curRoute.paramChild
     ELSE curRoute.wildcardChild

\* getExecution with the node the descent stops on taken for the terminal
\* node.
RECURSIVE getExecutionStopTerminal(_, _, _, _)
getExecutionStopTerminal(curRoute, method, pathParts, ex) ==
  LET ex4 == Visit(curRoute, method, pathParts, ex)
      child == IF Len(pathParts) > 1 THEN NextChild(curRoute, pathParts[2]) ELSE <<>>
  IN IF Len(pathParts) = 1 \/ curRoute.isWildcard \/ child = <<>>
       THEN [getHandler(curRoute, method, ex4) EXCEPT
               !.pattern = IF curRoute.fullPath = <<>> THEN <<"/">> ELSE curRoute.fullPath]
       ELSE getExecutionStopTerminal(child[1], method, Tail(pathParts), ex4)

\* Route.getExecution (for a known method): the execution filled in by the
\* walk from curRoute along pathParts.
RECURSIVE getExecution(_, _, _, _)
getExecution(curRoute, method, pathParts, ex) ==
  LET ex4 == Visit(curRoute, method, pathParts, ex)
  IN IF Len(pathParts) = 1 \/ curRoute.isWildcard
       THEN [getHandler(curRoute, method, ex4) EXCEPT
               !.pattern = IF curRoute.fullPath = <<>> THEN <<"/">> ELSE curRoute.fullPath]
       ELSE LET child == NextChild(curRoute, pathParts[2])
            IN IF child # <<>>
                 THEN getExecution(child[1], method, Tail(pathParts), ex4)
                 ELSE ex4

\* The loop of Route.execute that cuts the path: i and start are the code's
\* 0-based indexes.
RECURSIVE PathPartsLoop(_, _, _, _)
PathPartsLoop(pattern, i, start, pathParts) ==
  IF i >= Len(pattern) THEN [pathParts |-> pathParts, start |-> start]
  ELSE IF pattern[i + 1] = "/"
    THEN PathPartsLoop(pattern, i + 2, i + 1,
                       Append(pathParts, SubSeq(pattern, start + 1, i)))
    ELSE PathPartsLoop(pattern, i + 1, start, pathParts)

\* The segments Route.execute hands to getExecution.
PathParts(pattern) ==
  LET l == PathPartsLoop(pattern, 1, 1, << <<>> >>)
  IN IF pattern # <<"/">>
       THEN Append(l.pathParts, SubSeq(pattern, l.start + 1, Len(pattern)))
       ELSE l.pathParts

\* Route.execute
execute(r, ex, method, pattern) ==
  getExecution(r, method, PathParts(pattern), ex)

-----------------------------------------------------------------------------
(* The middleware chain *)

\* Repeat with one copy at most.
RepeatOnce(s, n) == IF n = 0 THEN <<>> ELSE s

\* n copies of the sequence s, one after the other
RECURSIVE Repeat(_, _)
Repeat(s, n) == IF n = 0 THEN <<>> ELSE s \o Repeat(s, n - 1)

\* What running getNextMiddleware(mids, h)(w, r) does, as the sequence of
\* its events: a middleware starts, calls next as many times as it does
\* (each call runs the closure over mids[1:]), and ends; with no middleware
\* left the handler is served.
RECURSIVE getNextMiddleware(_, _)
getNextMiddleware(mids, h) ==
  IF Len(mids) > 0
    THEN <<[ev |-> "enter", who |-> Head(mids).name]>>
           \o Repeat(getNextMiddleware(Tail(mids), h), Head(mids).calls)
           \o <<[ev |-> "leave", who |-> Head(mids).name]>>
    ELSE IF h = NilHandler
      THEN <<[ev |-> "panic", who |-> h]>>  \* a method call on a nil interface
      ELSE <<[ev |-> "serve", who |-> h]>>

\* A panic unwinds the chain: nothing runs after it.
CutAtPanic(events) ==
  LET panics == {i \in 1..Len(events) : events[i].ev = "panic"}
  IN IF panics = {} THEN events ELSE SubSeq(events, 1, Min(panics))

\* RunChain with the handler served before the middleware.
RunChainHandlerFirst(mids, h) ==
  <<[ev |-> "serve", who |-> h]>> \o CutAtPanic(getNextMiddleware(mids, h))

\* Calling the closure getNextMiddleware(mids, h) returns.
RunChain(mids, h) == CutAtPanic(getNextMiddleware(mids, h))

-----------------------------------------------------------------------------
(* The ServeMux facade *)

MaxRegs == 3

\* A request: its method, req.URL.Host and req.URL.EscapedPath().
Request(method, host, path) == [path |-> path, host |-> host, method |-> method]

\* req.URL.Path: the decoded path.
URLPath(req) == PathUnescape(req.path).value

\* executionPool.Get on the free-list: a record of the list, or a new one
\* (a sync.Pool may hand out any record it holds, or none of them).
Acquire(free) ==
  {[ex |-> x, rest |-> free \ {x}] : x \in free}
    \cup {[ex |-> createExecution, rest |-> free]}

\* The free-list after ex is released: the record released last is kept (a
\* sync.Pool may drop any record it holds, and the calls of this model
\* follow one another, so that one record at most is in use).
Release(rest, ex) == {Put(ex)}

\* _, ok := s.hostRoutes[host]
HasHost(hosts, host) == \E e \in hosts : e.host = host

\* s.hostRoutes[host], for a host the map holds
HostRoute(hosts, host) == (CHOOSE e \in hosts : e.host = host).tree

\* s.hostRoutes[host] = r, and the tree of r after the calls made through it
WithHost(hosts, host, r) ==
  {e \in hosts : e.host # host} \cup {[host |-> host, tree |-> r]}

\* A lookup that always takes the default tree.
TreeForDefault(base, hosts, req) == base

\* The tree a request is resolved in.
TreeFor(base, hosts, req) ==
  IF HasHost(hosts, req.host) THEN HostRoute(hosts, req.host) ELSE base

\* The lookup of ServeHTTP and HandlerAndMiddleware: the execution of the
\* request's tree, with the not found handler when there is no handler.
Lookup(base, hosts, req, ex0) ==
  LET ex == execute(TreeFor(base, hosts, req), ex0, req.method, req.path)
  IN IF ex.handler = NilHandler THEN [ex EXCEPT !.handler = ex.notFound] ELSE ex

\* No call has been made yet.
NoCall == [op |-> "none"]

\* A registration call was made.
Registration == [op |-> "register"]

\* ServeMux.HandlerAndMiddleware (ServeMux.Handler returns its handler and
\* pattern): the call and what it returns.
HandlerAndMiddleware(req) ==
  /\ \E a \in Acquire(pool) :
       IF KnownVerb(req.method)
         THEN LET ex == Lookup(baseRoute, hostRoutes, req, a.ex)
              IN /\ last' = [op |-> "HandlerAndMiddleware", req |-> req,
                             handler |-> ex.handler, middleware |-> ex.middleware,
                             pattern |-> ex.pattern]
                 /\ pool' = Release(a.rest, ex)
         ELSE /\ last' = [op |-> "panic", req |-> req]
              /\ pool' = a.rest
  /\ UNCHANGED <<baseRoute, hostRoutes, nregs, routed, inflight, heap>>

\* ServeMux.ServeHTTP: the redirect of a trailing slash (location is the
\* URL handed to http.RedirectHandler, code its status), or the lookup and
\* the run of the chain.  The request the chain sees carries one of the
\* path parameters (each turn of the loop over ex.params derives its
\* context from req.Context(), so the last turn's key alone is kept, and
\* the order of the turns is the map's).  wrote is what the handler served
\* wrote, when it is the synthesized 405 handler.
ServeHTTP(req) ==
  /\ IF URLPath(req) # <<"/">> /\ HasSuffix(URLPath(req), <<"/">>)
       THEN /\ last' = [op |-> "ServeHTTP", req |-> req, code |-> 308,
                        location |-> RequestURI(TrimRight(URLPath(req), "/")),
                        events |-> <<>>, ctx |-> {}, wrote |-> NothingWritten]
            /\ pool' = pool
       ELSE \E a \in Acquire(pool) :
              IF KnownVerb(req.method)
                THEN LET ex == Lookup(baseRoute, hostRoutes, req, a.ex)
                         events == RunChain(ex.middleware, ex.handler)
                         served == \E i \in 1..Len(events) : events[i].ev = "serve"
                     IN /\ \E ctx \in IF ex.params = {} THEN {{}}
                                      ELSE {{p} : p \in ex.params} :
                           \E wrote \in IF served THEN Writes(ex.handler)
                                         ELSE {NothingWritten} :
                             last' = [op |-> "ServeHTTP", req |-> req, code |-> 0,
                                      location |-> <<>>, events |-> events,
                                      ctx |-> ctx, wrote |-> wrote]
                        /\ pool' = Release(a.rest, ex)
                ELSE /\ last' = [op |-> "panic", req |-> req]
                     /\ pool' = a.rest
  /\ UNCHANGED <<baseRoute, hostRoutes, nregs, routed, inflight, heap>>

\* The tree of root with handler hd registered for method m on the node at
\* loc (Route.Get, Route.Post, ..., Route.Any, Route.Options, Route.NotFound).
SetHandler(root, loc, m, hd) ==
  ReplaceAt(root, loc, [NodeAt(root, loc) EXCEPT !.handlers[m] = hd])

\* Route.Middleware on the node at loc: the binding is appended, for every
\* verb.
Middleware(root, loc, mw) ==
  ReplaceAt(root, loc,
            [NodeAt(root, loc) EXCEPT !.middleware = Append(@, [mid |-> mw, verb |-> flagAny])])

\* f = f | getVerbFlag(verb), for each of the verbs
RECURSIVE VerbsFlag(_)
VerbsFlag(verbs) ==
  IF verbs = {} THEN 0
  ELSE LET verb == CHOOSE v \in verbs : TRUE
       IN BitOr(VerbsFlag(verbs \ {verb}), getVerbFlag(verb))

\* Route.MiddlewareFor on the node at loc, for known verbs.
MiddlewareFor(root, loc, mw, verbs) ==
  IF verbs = {} THEN root
  ELSE ReplaceAt(root, loc,
                 [NodeAt(root, loc) EXCEPT
                    !.middleware = Append(@, [mid |-> mw, verb |-> VerbsFlag(verbs)])])

\* Route.MiddlewareExceptFor on the node at loc, for known verbs.
MiddlewareExceptFor(root, loc, mw, verbs) ==
  IF verbs = {} THEN Middleware(root, loc, mw)
  ELSE LET f == BitNot(VerbsFlag(verbs))
       IN IF f = 0 THEN root
          ELSE ReplaceAt(root, loc,
                         [NodeAt(root, loc) EXCEPT
                            !.middleware = Append(@, [mid |-> mw, verb |-> f])])

\* The place of the root of a tree.
Top == << <<>> >>

\* The goroutines that serve requests.
NumProcs == 2

\* A goroutine that serves no request: it holds no execution record (ex) and
\* no path-segment buffer (buf).
Idle ==
  [pc |-> "idle", req |-> <<>>, ex |-> 0, buf |-> 0, len |-> 0, off |-> 0,
   cur |-> Top, result |-> <<>>]

\* n goroutines that serve no request
RECURSIVE IdleProcs(_)
IdleProcs(n) == IF n = 0 THEN <<>> ELSE Append(IdleProcs(n - 1), Idle)

\* No request is in flight.
NoFlights == IdleProcs(NumProcs)

\* newExecutionPool and pathPartsPool at the start: no record and no buffer
\* has been made yet.
EmptyHeap == [exs |-> <<>>, bufs |-> <<>>, freeEx |-> {}, freeBuf |-> {}, started |-> 0]

\* NewServeMux
Init ==
  /\ baseRoute = SetHandler(newRoute, Top, notFound, DefaultNotFound)
  /\ hostRoutes = {}
  /\ pool = {}
  /\ last = NoCall
  /\ nregs = 0
  /\ routed = {}
  /\ inflight = NoFlights
  /\ heap = EmptyHeap

\* s.Route(path).Get(h), .Post(h), ..., .Any(h), .Options(h), .NotFound(h)
RouteHandle(path, m) ==
  /\ nregs < MaxRegs
  /\ LET c == Route(baseRoute, Top, path)
     IN baseRoute' = SetHandler(c.tree, c.ret, m, HandlerOf(<<>>, path, m))
  /\ last' = Registration
  /\ nregs' = nregs + 1
  /\ UNCHANGED <<hostRoutes, pool, routed, inflight, heap>>

\* n.Route(path) on the node at loc of the default tree, with nothing
\* registered on the node returned (s.Route(path) when loc is the root); the
\* call is recorded with the *Route it returned.
RouteCall(loc, path) ==
  /\ nregs < MaxRegs
  /\ LET c == Route(baseRoute, loc, path)
     IN /\ baseRoute' = c.tree
        /\ last' = [op |-> "Route", on |-> loc, path |-> path, ret |-> c.ret]
        /\ routed' = routed \cup {[on |-> loc, path |-> path, ret |-> c.ret]}
  /\ nregs' = nregs + 1
  /\ UNCHANGED <<hostRoutes, pool, inflight, heap>>

\* s.Route(path).Middleware(mw)
RouteMiddleware(path, mw) ==
  /\ nregs < MaxRegs
  /\ LET c == Route(baseRoute, Top, path)
     IN baseRoute' = Middleware(c.tree, c.ret, mw)
  /\ last' = Registration
  /\ nregs' = nregs + 1
  /\ UNCHANGED <<hostRoutes, pool, routed, inflight, heap>>

\* ServeMux.RouteHost: [hosts, tree, ret], the map afterwards, the tree of
\* the host and the place in it of the node of path.
RouteHost(hosts, host, path) ==
  LET r == IF HasHost(hosts, host) THEN HostRoute(hosts, host) ELSE newRoute
      c == Route(r, Top, path)
  IN [hosts |-> WithHost(hosts, host, c.tree), tree |-> c.tree, ret |-> c.ret]

\* s.RouteHost(host, path).Get(h), .Post(h), ..., .Any(h), .NotFound(h)
RouteHostHandle(host, path, m) ==
  /\ nregs < MaxRegs
  /\ LET c == RouteHost(hostRoutes, host, path)
     IN hostRoutes' = WithHost(c.hosts, host,
                               SetHandler(c.tree, c.ret, m, HandlerOf(host, path, m)))
  /\ last' = Registration
  /\ nregs' = nregs + 1
  /\ UNCHANGED <<baseRoute, pool, routed, inflight, heap>>

\* ServeMux.HandleHost(host, path, h): it calls s.RouteHost(path, host), so
\* that the tree is the one of the host named path and the route the one
\* of the path named host.  (host is not empty: Route indexes path[0].)
HandleHost(host, path) ==
  /\ nregs < MaxRegs
  /\ LET c == RouteHost(hostRoutes, path, host)
     IN hostRoutes' = WithHost(c.hosts, path,
                               SetHandler(c.tree, c.ret, methodAny,
                                          HandlerOf(host, path, methodAny)))
  /\ last' = Registration
  /\ nregs' = nregs + 1
  /\ UNCHANGED <<baseRoute, pool, routed, inflight, heap>>

\* ServeMux.MiddlewareHost(host, path, mw)
MiddlewareHost(host, path, mw) ==
  /\ nregs < MaxRegs
  /\ LET c == RouteHost(hostRoutes, host, path)
     IN hostRoutes' = WithHost(c.hosts, host, Middleware(c.tree, c.ret, mw))
  /\ last' = Registration
  /\ nregs' = nregs + 1
  /\ UNCHANGED <<baseRoute, pool, routed, inflight, heap>>

\* ServeMux.NotFound(h)
NotFound(hd) ==
  /\ nregs < MaxRegs
  /\ baseRoute' = SetHandler(baseRoute, Top, notFound, hd)
  /\ last' = Registration
  /\ nregs' = nregs + 1
  /\ UNCHANGED <<hostRoutes, pool, routed, inflight, heap>>

\* s.Route(path).MiddlewareFor(mw, verbs...)
RouteMiddlewareFor(path, mw, verbs) ==
  /\ nregs < MaxRegs
  /\ LET c == Route(baseRoute, Top, path)
     IN baseRoute' = MiddlewareFor(c.tree, c.ret, mw, verbs)
  /\ last' = Registration
  /\ nregs' = nregs + 1
  /\ UNCHANGED <<hostRoutes, pool, routed, inflight, heap>>

\* s.Route(path).MiddlewareExceptFor(mw, verbs...)
RouteMiddlewareExceptFor(path, mw, verbs) ==
  /\ nregs < MaxRegs
  /\ LET c == Route(baseRoute, Top, path)
     IN baseRoute' = MiddlewareExceptFor(c.tree, c.ret, mw, verbs)
  /\ last' = Registration
  /\ nregs' = nregs + 1
  /\ UNCHANGED <<hostRoutes, pool, routed, inflight, heap>>

-----------------------------------------------------------------------------
(* Reference semantics of patterns, from the registrations alone *)

\* The nodes of a tree.
RECURSIVE NodesOf(_)
NodesOf(r) ==
  LET kids == getChildren(r)
  IN {r} \cup UNION {NodesOf(kids[i]) : i \in 1..Len(kids)}

\* The handlers registered in a tree (every HandlerOf value it holds).
Registered(r) ==
  {hd \in UNION {{n.handlers[m] : m \in Methods \cup {methodAny, notFound}} : n \in NodesOf(r)} :
     Len(hd) = 4}

\* The middleware bound in a tree; a middleware of this model is named
\* after the call that binds it: [path, seq, kind, verbs].
Bound(r) ==
  UNION {{n.middleware[i].mid : i \in 1..Len(n.middleware)} : n \in NodesOf(r)}

\* The segments of a canonical pattern or of a request path: the root
\* segment "" and the parts between the slashes.
Segs(path) == IF path = <<"/">> THEN << <<>> >> ELSE Split(path)

\* The canonical pattern of a sequence of segments.
RECURSIVE JoinSegs(_)
JoinSegs(segs) ==
  IF segs = <<>> THEN <<>> ELSE <<"/">> \o Head(segs) \o JoinSegs(Tail(segs))

PatternOf(segs) == IF Len(segs) = 1 THEN <<"/">> ELSE JoinSegs(Tail(segs))

\* The patterns registered in a tree, as segments, and every prefix of them:
\* the nodes the registrations ask for.
RegPatterns(h) ==
  {Segs(hd[3]) : hd \in Registered(h)} \cup {Segs(mw.name.path) : mw \in Bound(h)}

RegNodes(h) ==
  {<< <<>> >>} \cup UNION {{SubSeq(p, 1, k) : k \in 1..Len(p)} : p \in RegPatterns(h)}

IsParamSeg(s) == HasPrefix(s, <<":">>)

IsWildSeg(s) == s = <<"*">>

\* A request's segments match a pattern's, segment by segment: a literal
\* equals the segment, a parameter matches any one segment, a trailing
\* wildcard any remainder of one segment or more.
RECURSIVE MatchesPattern(_, _)
MatchesPattern(pat, rs) ==
  IF pat = <<>> THEN rs = <<>>
  ELSE IF rs = <<>> THEN FALSE
  ELSE IF IsWildSeg(Head(pat)) THEN Len(pat) = 1
  ELSE IF IsParamSeg(Head(pat)) \/ Head(pat) = Head(rs)
    THEN MatchesPattern(Tail(pat), Tail(rs))
  ELSE FALSE

\* The walk the precedence rule prescribes over the nodes N: from the node
\* cur, with the request segments rest still to match, take the literal
\* child equal to the next segment, else the parameter child, else the
\* wildcard child.  [found, node]: whether a terminal node is reached.
RECURSIVE RefWalk(_, _, _)
RefWalk(N, cur, rest) ==
  IF rest = <<>> \/ IsWildSeg(cur[Len(cur)]) THEN [found |-> TRUE, node |-> cur]
  ELSE
    LET s == Head(rest)
        kids == {n \in N : Len(n) = Len(cur) + 1 /\ SubSeq(n, 1, Len(cur)) = cur}
        lit == {n \in kids : n[Len(n)] = s /\ ~IsParamSeg(s) /\ ~IsWildSeg(s)}
        par == {n \in kids : IsParamSeg(n[Len(n)])}
        wild == {n \in kids : IsWildSeg(n[Len(n)])}
        next == IF lit # {} THEN lit ELSE IF par # {} THEN par ELSE wild
    IN IF next = {} THEN [found |-> FALSE, node |-> cur]
       ELSE RefWalk(N, CHOOSE n \in next : TRUE, Tail(rest))

\* The walk for a request in tree h.
RefWalkOf(h, req) == RefWalk(RegNodes(h), << <<>> >>, Tail(Segs(req.path)))

-----------------------------------------------------------------------------
(* Specification Spec: precedence of literal, parameter and wildcard routes *)

\* Patterns registered: /, /u, /u/j, /u/:x, /u/*, /u/j/i, /u/:x/i
PrecPaths ==
  { <<"/">>, <<"/", "u">>, <<"/", "u", "/", "j">>, <<"/", "u", "/", ":", "x">>,
    <<"/", "u", "/", "*">>, <<"/", "u", "/", "j", "/", "i">>,
    <<"/", "u", "/", ":", "x", "/", "i">> }

\* Paths requested: /, /u, /u/j, /u/k, /u/j/i, /u/k/i, /u/j/z, /u/k/i/z
PrecRequestPaths ==
  { <<"/">>, <<"/", "u">>, <<"/", "u", "/", "j">>, <<"/", "u", "/", "k">>,
    <<"/", "u", "/", "j", "/", "i">>, <<"/", "u", "/", "k", "/", "i">>,
    <<"/", "u", "/", "j", "/", "z">>, <<"/", "u", "/", "k", "/", "i", "/", "z">> }

PrecMethods == {"GET", "POST"}

NextPrecRegister == \E path \in PrecPaths : RouteHandle(path, "GET")

NextPrecHandler ==
  \E req \in {Request(m, <<>>, path) : path \in PrecRequestPaths, m \in PrecMethods} :
    HandlerAndMiddleware(req)

Next == NextPrecRegister \/ NextPrecHandler

Spec == Init /\ [][Next]_vars

\* A not found handler: the default one or one registered with NotFound.
IsNotFoundHandler(hd) ==
  hd = DefaultNotFound \/ (Len(hd) = 4 /\ hd[4] = notFound)

\* C1: the node a lookup ends on is the one the precedence rule gives
\* (literal child equal to the segment, else the parameter child, else the
\* wildcard child, at every level), whatever the order of registration: the
\* pattern returned is that node's and the handler the one registered there
\* for the method; when the rule finds no child the default not found
\* handler answers.
C1_ChildPrecedence ==
  last.op = "HandlerAndMiddleware" =>
    LET w == RefWalkOf(baseRoute, last.req)
        hd == HandlerOf(<<>>, PatternOf(w.node), last.req.method)
    IN IF w.found
         THEN /\ last.pattern = PatternOf(w.node)
              /\ (hd \in Registered(baseRoute) => last.handler = hd)
         ELSE last.handler = DefaultNotFound

\* /u/:x/i and /u/j/i are both registered and GET /u/j/i got the literal
\* route's handler and pattern.
C1_Witness ==
  /\ last.op = "HandlerAndMiddleware"
  /\ last.req.path = <<"/", "u", "/", "j", "/", "i">>
  /\ HandlerOf(<<>>, <<"/", "u", "/", ":", "x", "/", "i">>, "GET") \in Registered(baseRoute)
  /\ last.handler = HandlerOf(<<>>, <<"/", "u", "/", "j", "/", "i">>, "GET")
  /\ last.pattern = <<"/", "u", "/", "j", "/", "i">>

\* C2: a request that matches the registered pattern P, and no other
\* registered pattern, on a method P has a handler for, gets P's handler and
\* P as the pattern.
C2_UniqueMatchIsFound ==
  last.op = "HandlerAndMiddleware" =>
    \A hd \in Registered(baseRoute) :
      ( /\ hd[4] = last.req.method
        /\ MatchesPattern(Segs(hd[3]), Segs(last.req.path))
        /\ \A o \in Registered(baseRoute) :
             MatchesPattern(Segs(o[3]), Segs(last.req.path)) => o[3] = hd[3] )
      => (last.handler = hd /\ last.pattern = hd[3])

\* C6: when a not found handler is returned, the pattern returned is the
\* empty string.
C6_NotFoundHasEmptyPattern ==
  (last.op = "HandlerAndMiddleware" /\ IsNotFoundHandler(last.handler))
    => last.pattern = <<>>

-----------------------------------------------------------------------------
(* Specification SpecHandler: Route.getHandler on every terminal node *)

\* A node at /a/b with a handler for each key of K, named after the key.
NodeWith(K) ==
  LET H(m) == IF m \in K THEN HandlerOf(<<>>, <<"/", "a", "/", "b">>, m) ELSE NilHandler
  IN [newRoute EXCEPT
        !.pattern = <<"b">>, !.fullPath = <<"/", "a", "/", "b">>,
        !.handlers = [GET |-> H("GET"), HEAD |-> H("HEAD"), POST |-> H("POST"),
                      PUT |-> H("PUT"), PATCH |-> H("PATCH"), DELETE |-> H("DELETE"),
                      CONNECT |-> H("CONNECT"), OPTIONS |-> H("OPTIONS"),
                      ANY |-> H(methodAny), NOT_FOUND |-> H(notFound)]]

\* The OPTIONS handler of an ancestor of the node.
AncestorOptions == HandlerOf(<<>>, <<"/", "a">>, "OPTIONS")

\* The handler the execution holds when getHandler is called: none, or for
\* an OPTIONS request the OPTIONS handler of an ancestor.
PriorHandlers(method) ==
  IF method = "OPTIONS" THEN {NilHandler, AncestorOptions} ELSE {NilHandler}

\* The terminal node is any node: one handler or none for each key.
InitHandler ==
  /\ baseRoute \in {NodeWith(K) : K \in SUBSET (Methods \cup {methodAny, notFound})}
  /\ hostRoutes = {}
  /\ pool = {}
  /\ last = NoCall
  /\ nregs = 0
  /\ routed = {}
  /\ inflight = NoFlights
  /\ heap = EmptyHeap

\* curRoute.getHandler(method, ex) on the terminal node
GetHandlerCall(method, prior) ==
  /\ last' = [op |-> "getHandler", method |-> method, prior |-> prior,
              ex |-> getHandler(baseRoute, method, [createExecution EXCEPT !.handler = prior])]
  /\ UNCHANGED <<baseRoute, hostRoutes, pool, nregs, routed, inflight, heap>>

NextHandler == \E method \in Methods : \E prior \in PriorHandlers(method) : GetHandlerCall(method, prior)

SpecHandler == InitHandler /\ [][NextHandler]_vars

\* The first handler of a sequence of candidates that is not nil.
RECURSIVE FirstHandler(_)
FirstHandler(cands) ==
  IF cands = <<>> THEN NilHandler
  ELSE IF Head(cands) # NilHandler THEN Head(cands)
  ELSE FirstHandler(Tail(cands))

\* The reference priority function: the method's handler, for HEAD the GET
\* handler, the ANY handler, the handler recorded before, a 405 handler
\* that lists the methods of the node when it has one.
PriorityHandler(node, method, prior) ==
  LET real == {m \in Methods : node.handlers[m] # NilHandler}
  IN FirstHandler(<< node.handlers[method],
                     IF method = "HEAD" THEN node.handlers["GET"] ELSE NilHandler,
                     node.handlers[methodAny],
                     prior,
                     IF real # {} THEN <<"405", real>> ELSE NilHandler >>)

-----------------------------------------------------------------------------
(* Specification SpecHost: host specific trees *)

HostNames == {<<"a">>}

HostPaths == {<<"/">>, <<"/", "u">>}

\* Hosts of the requests: none, a, and the host HandleHost keys its tree by.
RequestHosts == {<<>>, <<"a">>, <<"/", "u">>}

\* Paths of the requests: /, /u, /k, /a
HostRequestPaths == {<<"/">>, <<"/", "u">>, <<"/", "k">>, <<"/", "a">>}

NextHostRegister ==
  \/ \E host \in HostNames, path \in HostPaths : RouteHostHandle(host, path, "GET")
  \/ \E host \in HostNames : HandleHost(host, <<"/", "u">>)
  \/ RouteHandle(<<"/", "u">>, "GET")
  \/ NotFound(HandlerOf(<<>>, <<"/">>, notFound))

NextHostHandler ==
  \E req \in {Request(m, host, path) : host \in RequestHosts, path \in HostRequestPaths, m \in {"GET", "POST"}} :
    HandlerAndMiddleware(req)

NextHost == NextHostRegister \/ NextHostHandler

SpecHost == Init /\ [][NextHost]_vars

\* C4: Handler and HandlerAndMiddleware return a handler that is not nil,
\* for every request, in the default tree and in a host specific tree.
C4_HandlerNotNil ==
  last.op = "HandlerAndMiddleware" => last.handler # NilHandler

-----------------------------------------------------------------------------
(* Specification SpecFallback: not found and OPTIONS handlers of ancestors *)

\* The registrations: a path and the key the handler is registered for.
FallbackRegs ==
  { <<<<"/">>, "OPTIONS">>,
    <<<<"/", "a">>, "GET">>, <<<<"/", "a">>, "OPTIONS">>, <<<<"/", "a">>, notFound>>,
    <<<<"/", "a", "/", "b">>, "GET">>, <<<<"/", "a", "/", "b">>, "OPTIONS">>,
    <<<<"/", "a", "/", "b">>, methodAny>>, <<<<"/", "a", "/", "b">>, notFound>>,
    <<<<"/", "a", "/", ":", "x">>, notFound>> }

\* Paths requested: /, /a, /a/b, /a/k, /a/b/k, /k
FallbackRequestPaths ==
  { <<"/">>, <<"/", "a">>, <<"/", "a", "/", "b">>, <<"/", "a", "/", "k">>,
    <<"/", "a", "/", "b", "/", "k">>, <<"/", "k">> }

NextFallbackRegister ==
  \/ \E reg \in FallbackRegs : RouteHandle(reg[1], reg[2])
  \/ NotFound(HandlerOf(<<>>, <<"/">>, notFound))

NextFallbackHandler ==
  \E req \in {Request(m, <<>>, path) : path \in FallbackRequestPaths, m \in {"GET", "OPTIONS"}} :
    HandlerAndMiddleware(req)

NextFallback == NextFallbackRegister \/ NextFallbackHandler

SpecFallback == Init /\ [][NextFallback]_vars

\* The nodes on the way to node n, n included, by the registrations.
Upto(n) == {SubSeq(n, 1, k) : k \in 1..Len(n)}

\* The node n has a handler registered for key m.
RegAt(r, n, m) == HandlerOf(<<>>, PatternOf(n), m) \in Registered(r)

\* The deepest of the nodes of N that has a handler for key m.
DeepestWith(r, N, m) ==
  CHOOSE n \in N : RegAt(r, n, m) /\ \A o \in N : RegAt(r, o, m) => Len(o) <= Len(n)

\* The not found handler the walk w asks for: the one of the deepest node
\* on the way that has one, the default one when none has.
NotFoundOf(r, w) ==
  IF \E n \in Upto(w.node) : RegAt(r, n, notFound)
    THEN HandlerOf(<<>>, PatternOf(DeepestWith(r, Upto(w.node), notFound)), notFound)
    ELSE DefaultNotFound

\* The walk w of a request with this method selects no handler: no OPTIONS
\* handler on the way of an OPTIONS request, and no child to go to or a
\* terminal node with no handler for a method or for ANY.
NoneSelected(r, w, method) ==
  /\ ~(method = "OPTIONS" /\ \E n \in Upto(w.node) : RegAt(r, n, "OPTIONS"))
  /\ (w.found => \A m \in Methods \cup {methodAny} : ~RegAt(r, w.node, m))

\* C5: when the lookup selects no handler the not found handler returned is
\* the one of the deepest node visited that has one (the default one when
\* no node visited has one), and a not found handler returned is never
\* another one.
C5_DeepestNotFound ==
  last.op = "HandlerAndMiddleware" =>
    LET w == RefWalkOf(baseRoute, last.req)
    IN /\ NoneSelected(baseRoute, w, last.req.method)
            => last.handler = NotFoundOf(baseRoute, w)
       /\ IsNotFoundHandler(last.handler)
            => last.handler = NotFoundOf(baseRoute, w)

\* NotFound handlers are set on the mux, on /a and on /a/b, and GET /a/k got
\* the one of /a.
C5_Witness ==
  /\ last.op = "HandlerAndMiddleware"
  /\ last.req = Request("GET", <<>>, <<"/", "a", "/", "k">>)
  /\ RegAt(baseRoute, << <<>> >>, notFound)
  /\ RegAt(baseRoute, << <<>>, <<"a">>, <<"b">> >>, notFound)
  /\ last.handler = HandlerOf(<<>>, <<"/", "a">>, notFound)

\* C7: an OPTIONS request whose terminal node has no OPTIONS and no ANY
\* handler, with an OPTIONS handler on a node above it, gets the OPTIONS
\* handler of the deepest such node and the pattern of the terminal node.
C7_AncestorOptions ==
  last.op = "HandlerAndMiddleware" =>
    LET w == RefWalkOf(baseRoute, last.req)
        above == Upto(w.node) \ {w.node}
    IN ( /\ last.req.method = "OPTIONS"
         /\ w.found
         /\ ~RegAt(baseRoute, w.node, "OPTIONS") /\ ~RegAt(baseRoute, w.node, methodAny)
         /\ \E n \in above : RegAt(baseRoute, n, "OPTIONS") )
       => /\ last.handler =
               HandlerOf(<<>>, PatternOf(DeepestWith(baseRoute, above, "OPTIONS")), "OPTIONS")
          /\ last.pattern = PatternOf(w.node)

\* OPTIONS handlers on / and on /a, GET on /a/b: OPTIONS /a/b got the
\* OPTIONS handler of /a with the pattern /a/b.
C7_Witness ==
  /\ last.op = "HandlerAndMiddleware"
  /\ last.req = Request("OPTIONS", <<>>, <<"/", "a", "/", "b">>)
  /\ RegAt(baseRoute, << <<>> >>, "OPTIONS")
  /\ RegAt(baseRoute, << <<>>, <<"a">>, <<"b">> >>, "GET")
  /\ last.handler = HandlerOf(<<>>, <<"/", "a">>, "OPTIONS")
  /\ last.pattern = <<"/", "a", "/", "b">>

-----------------------------------------------------------------------------
(* Specification SpecMiddleware: the middleware of a request *)

\* The middleware a registration call binds, named after the call: its
\* path, how many middleware were bound on the path before, its kind and its
\* verbs.  It calls next once.
MiddlewareNamed(path, kind, verbs) ==
  MiddlewareOf([path |-> path,
                nth |-> Cardinality({mw \in Bound(baseRoute) : mw.name.path = path}),
                kind |-> kind, verbs |-> verbs], 1)

MiddlewarePaths == {<<"/">>, <<"/", "a">>}

\* MiddlewareFor calls: the path and the verbs
ForCalls == { <<<<"/", "a">>, {"GET"}>>, <<<<"/", "a", "/", "b">>, {}>> }

\* MiddlewareExceptFor calls: the path and the verbs
ExceptForCalls ==
  { <<<<"/", "a">>, {"OPTIONS"}>>, <<<<"/", "a", "/", "b">>, {}>>, <<<<"/">>, Methods>> }

\* Handlers: GET on /a/b, NOT_FOUND on /a
MiddlewareHandles == { <<<<"/", "a", "/", "b">>, "GET">>, <<<<"/", "a">>, notFound>> }

\* Paths requested: /a/b, /a/k
MiddlewareRequestPaths == { <<"/", "a", "/", "b">>, <<"/", "a", "/", "k">> }

NextMiddlewareRegister ==
  \/ \E path \in MiddlewarePaths : RouteMiddleware(path, MiddlewareNamed(path, "all", {}))
  \/ \E c \in ForCalls : RouteMiddlewareFor(c[1], MiddlewareNamed(c[1], "for", c[2]), c[2])
  \/ \E c \in ExceptForCalls :
       RouteMiddlewareExceptFor(c[1], MiddlewareNamed(c[1], "except", c[2]), c[2])
  \/ \E reg \in MiddlewareHandles : RouteHandle(reg[1], reg[2])

NextMiddlewareHandler ==
  \E req \in {Request(m, <<>>, path) : path \in MiddlewareRequestPaths, m \in {"GET", "OPTIONS"}} :
    HandlerAndMiddleware(req)

NextMiddleware == NextMiddlewareRegister \/ NextMiddlewareHandler

SpecMiddleware == Init /\ [][NextMiddleware]_vars

(* Specification SpecServe: the same registrations, and requests served *)

NextServeRequest ==
  \E req \in {Request(m, <<>>, path) : path \in MiddlewareRequestPaths, m \in {"GET", "OPTIONS"}} :
    ServeHTTP(req)

NextServe == NextMiddlewareRegister \/ NextServeRequest

SpecServe == Init /\ [][NextServe]_vars

\* A middleware, by its name, is bound for a method.
BoundFor(mw, method) ==
  \/ mw.name.kind = "all"
  \/ mw.name.kind = "for" /\ method \in mw.name.verbs
  \/ mw.name.kind = "except" /\ method \notin mw.name.verbs

\* The middleware of the set S in the order of the calls that bound them.
RECURSIVE InCallOrder(_)
InCallOrder(S) ==
  IF S = {} THEN <<>>
  ELSE LET first == CHOOSE mw \in S : \A o \in S : mw.name.nth <= o.name.nth
       IN <<first>> \o InCallOrder(S \ {first})

\* The middleware of a request: for each of the first k nodes on the way to
\* node n, from the root, those bound on it for the method, in call order.
RECURSIVE MiddlewareUpto(_, _, _, _)
MiddlewareUpto(r, n, k, method) ==
  IF k = 0 THEN <<>>
  ELSE MiddlewareUpto(r, n, k - 1, method)
         \o InCallOrder({mw \in Bound(r) : /\ Segs(mw.name.path) = SubSeq(n, 1, k)
                                           /\ BoundFor(mw, method)})

ExpectedMiddleware(r, req) ==
  LET w == RefWalkOf(r, req) IN MiddlewareUpto(r, w.node, Len(w.node), req.method)

\* C8: the middleware list of a lookup is the concatenation, from the root
\* to the node the lookup stopped on, of the middleware bound on each node
\* visited for a verb set that holds the request method, in the order of
\* the calls that bound them; nothing bound elsewhere is in it.
C8_MiddlewareConcatenation ==
  last.op = "HandlerAndMiddleware" =>
    last.middleware = ExpectedMiddleware(baseRoute, last.req)

\* GET /a/k with a middleware bound on / and two on /a, one of them for GET
\* alone: the list has the one of / first and the two of /a in call order.
C8_Witness ==
  /\ last.op = "HandlerAndMiddleware"
  /\ last.req = Request("GET", <<>>, <<"/", "a", "/", "k">>)
  /\ Len(last.middleware) = 3
  /\ last.middleware[1].name.path = <<"/">>
  /\ last.middleware[2].name.path = <<"/", "a">> /\ last.middleware[2].name.nth = 0
  /\ last.middleware[3].name.path = <<"/", "a">> /\ last.middleware[3].name.nth = 1
  /\ \E i \in {2, 3} : last.middleware[i].name.kind = "for"

\* The events of a chain in which every middleware calls next once: the
\* middleware start in order, the handler is served, they end in reverse.
RECURSIVE Nested(_, _)
Nested(mids, h) ==
  IF mids = <<>> THEN <<[ev |-> "serve", who |-> h]>>
  ELSE <<[ev |-> "enter", who |-> Head(mids).name]>> \o Nested(Tail(mids), h)
         \o <<[ev |-> "leave", who |-> Head(mids).name]>>

\* http.RedirectHandler(url, http.StatusPermanentRedirect)
RedirectHandler(url) == <<"http.RedirectHandler", url, 308>>

\* The handler is a synthesized 405 handler.
Is405(hd) == Len(hd) = 2 /\ hd[1] = "405"

\* The walk w of a request with this method ends on a node that has
\* handlers for other methods only, with no OPTIONS handler recorded.
MethodRefused(r, w, method) ==
  /\ w.found
  /\ \E m \in Methods : RegAt(r, w.node, m)
  /\ ~RegAt(r, w.node, method) /\ ~RegAt(r, w.node, methodAny)
  /\ ~(method = "HEAD" /\ RegAt(r, w.node, "GET"))
  /\ ~(method = "OPTIONS" /\ \E n \in Upto(w.node) : RegAt(r, n, "OPTIONS"))

\* C9: ServeHTTP runs every matching middleware of the nodes visited, in
\* order, before the handler, also when the handler is a not found handler
\* or the synthesized 405 handler.
C9_MiddlewareBeforeHandler ==
  (last.op = "ServeHTTP" /\ last.code = 0) =>
    \E h \in {last.events[i].who : i \in {j \in 1..Len(last.events) : last.events[j].ev = "serve"}} :
      /\ last.events = Nested(ExpectedMiddleware(baseRoute, last.req), h)
      /\ LET w == RefWalkOf(baseRoute, last.req)
         IN /\ NoneSelected(baseRoute, w, last.req.method) => h = NotFoundOf(baseRoute, w)
            /\ MethodRefused(baseRoute, w, last.req.method) => Is405(h)

\* GET /a/k, which has no node, with middleware on / and on /a and a
\* NOT_FOUND handler on /a: the two middleware started before that handler.
C9_Witness ==
  /\ last.op = "ServeHTTP"
  /\ last.req = Request("GET", <<>>, <<"/", "a", "/", "k">>)
  /\ Len(last.events) = 5
  /\ last.events[1].ev = "enter" /\ last.events[1].who.path = <<"/">>
  /\ last.events[2].ev = "enter" /\ last.events[2].who.path = <<"/", "a">>
  /\ last.events[3] = [ev |-> "serve", who |-> HandlerOf(<<>>, <<"/", "a">>, notFound)]

-----------------------------------------------------------------------------
(* Specification SpecChain: the callable getNextMiddleware builds *)

\* The longest chain, and the most calls of next by one middleware.
MaxChain == 3

MaxCalls == 2

\* The chains of n middleware: the i-th is named i and calls next any
\* number of times up to MaxCalls.
RECURSIVE Chains(_)
Chains(n) ==
  IF n = 0 THEN {<<>>}
  ELSE {Append(c, MiddlewareOf(n, k)) : c \in Chains(n - 1), k \in 0..MaxCalls}

\* f := getNextMiddleware(mids, h), for any chain and handler
InitChain ==
  /\ baseRoute = SetHandler(newRoute, Top, notFound, DefaultNotFound)
  /\ hostRoutes = {}
  /\ pool = {}
  /\ nregs = 0
  /\ routed = {}
  /\ inflight = NoFlights
  /\ heap = EmptyHeap
  /\ \E n \in 0..MaxChain : \E mids \in Chains(n) :
       \E h \in {DefaultNotFound, HandlerOf(<<>>, <<"/">>, "GET")} :
         last = [op |-> "getNextMiddleware", mids |-> mids, h |-> h]

\* f(rw, req)
CallChain ==
  /\ last.op = "getNextMiddleware"
  /\ last' = [op |-> "chain", mids |-> last.mids, h |-> last.h,
              events |-> RunChain(last.mids, last.h)]
  /\ UNCHANGED <<baseRoute, hostRoutes, pool, nregs, routed, inflight, heap>>

NextChain == CallChain

SpecChain == InitChain /\ [][NextChain]_vars

\* How many times the middleware named i started, and the handler was served.
Starts(events, i) ==
  Cardinality({j \in 1..Len(events) : events[j] = [ev |-> "enter", who |-> i]})

Serves(events, h) ==
  Cardinality({j \in 1..Len(events) : events[j] = [ev |-> "serve", who |-> h]})

\* C10: the first middleware runs once; a middleware that calls next k
\* times makes the next one, or the handler after the last one, run k times
\* for each of its own runs (so that nothing after a middleware that does
\* not call next runs); when every middleware calls next once the
\* middleware start in order, the handler runs once, and they end in
\* reverse order.
C10_ChainSemantics ==
  last.op = "chain" =>
    LET n == Len(last.mids)
    IN /\ n > 0 => Starts(last.events, 1) = 1
       /\ \A i \in 1..n :
            IF i < n
              THEN Starts(last.events, i + 1) = last.mids[i].calls * Starts(last.events, i)
              ELSE Serves(last.events, last.h) = last.mids[i].calls * Starts(last.events, i)
       /\ n = 0 => last.events = <<[ev |-> "serve", who |-> last.h]>>
       /\ (\A i \in 1..n : last.mids[i].calls = 1) => last.events = Nested(last.mids, last.h)
       /\ \A i \in 1..n : last.mids[i].calls = 0 =>
            /\ Serves(last.events, last.h) = 0
            /\ \A j \in (i + 1)..n : Starts(last.events, j) = 0

\* A chain of three in which the second middleware calls next twice and the
\* others once: the third ran twice and the handler twice.
C10_Witness ==
  /\ last.op = "chain"
  /\ Len(last.mids) = 3
  /\ last.mids[1].calls = 1 /\ last.mids[2].calls = 2 /\ last.mids[3].calls = 1
  /\ Starts(last.events, 2) = 1
  /\ Starts(last.events, 3) = 2
  /\ Serves(last.events, last.h) = 2

-----------------------------------------------------------------------------
(* Specification SpecVerbs: a middleware bound for a set of verbs *)

\* The middleware of a MiddlewareFor or MiddlewareExceptFor call on the root,
\* named after the call.  It calls next once.
VerbMiddleware(kind, verbs) ==
  MiddlewareOf([path |-> <<"/">>, nth |-> 0, kind |-> kind, verbs |-> verbs], 1)

\* The default tree of a new ServeMux after s.Route("/").MiddlewareFor(mw,
\* verbs...) or s.Route("/").MiddlewareExceptFor(mw, verbs...).
VerbTree(kind, verbs) ==
  LET base == SetHandler(newRoute, Top, notFound, DefaultNotFound)
      c == Route(base, Top, <<"/">>)
  IN IF kind = "for"
       THEN MiddlewareFor(c.tree, c.ret, VerbMiddleware(kind, verbs), verbs)
       ELSE MiddlewareExceptFor(c.tree, c.ret, VerbMiddleware(kind, verbs), verbs)

VerbKinds == {"for", "except"}

\* The calls, each with the tree it leaves.
VerbCalls ==
  {[kind |-> kind, verbs |-> verbs, tree |-> VerbTree(kind, verbs)] :
     kind \in VerbKinds, verbs \in SUBSET Methods}

\* NewServeMux and one of the two calls, for any set of the eight methods
InitVerbs ==
  /\ baseRoute \in {c.tree : c \in VerbCalls}
  /\ hostRoutes = {}
  /\ pool = {}
  /\ last = NoCall
  /\ nregs = 0
  /\ routed = {}
  /\ inflight = NoFlights
  /\ heap = EmptyHeap

\* A request for / with each of the eight methods
NextVerbs == \E req \in {Request(m, <<>>, <<"/">>) : m \in Methods} : HandlerAndMiddleware(req)

SpecVerbs == InitVerbs /\ [][NextVerbs]_vars

\* C11: a middleware bound with MiddlewareFor(mw, V...) is in the middleware
\* list of a lookup iff the request method is in V, and one bound with
\* MiddlewareExceptFor(mw, V...) iff the request method is not in V, for
\* every set V of the eight methods and every one of the eight methods.
C11_VerbFilter ==
  last.op = "HandlerAndMiddleware" =>
    \A c \in VerbCalls :
      baseRoute = c.tree =>
        LET in == \E i \in 1..Len(last.middleware) :
                    last.middleware[i] = VerbMiddleware(c.kind, c.verbs)
        IN in <=> IF c.kind = "for" THEN last.req.method \in c.verbs
                  ELSE last.req.method \notin c.verbs

\* PUT / after MiddlewareExceptFor(mw, GET, POST): the middleware is in the
\* list.
C11_Witness ==
  /\ last.op = "HandlerAndMiddleware"
  /\ last.req.method = "PUT"
  /\ baseRoute = VerbTree("except", {"GET", "POST"})
  /\ last.middleware = <<VerbMiddleware("except", {"GET", "POST"})>>

-----------------------------------------------------------------------------
(* Specification SpecParams: the path parameters a served request carries *)

\* Patterns registered: /u/:a/i, /u/j/i, /u/:a/:b
ParamPaths ==
  { <<"/", "u", "/", ":", "a", "/", "i">>, <<"/", "u", "/", "j", "/", "i">>,
    <<"/", "u", "/", ":", "a", "/", ":", "b">> }

\* Paths requested: /u/x/i, /u/j/i, /u/x/z, /u/%2F/i
ParamRequestPaths ==
  { <<"/", "u", "/", "x", "/", "i">>, <<"/", "u", "/", "j", "/", "i">>,
    <<"/", "u", "/", "x", "/", "z">>, <<"/", "u", "/", "%", "2", "F", "/", "i">> }

NextParamRegister == \E path \in ParamPaths, m \in {"GET", "POST"} : RouteHandle(path, m)

NextParamServe == \E req \in {Request("GET", <<>>, path) : path \in ParamRequestPaths} : ServeHTTP(req)

NextParams == NextParamRegister \/ NextParamServe

SpecParams == Init /\ [][NextParams]_vars

\* The parameters of a request on the way to node n: for each parameter
\* node, its name with the decoded request segment at its place.
ExpectedParams(n, req) ==
  {[name |-> Tail(n[i]), value |-> PathUnescape(Segs(req.path)[i]).value] :
     i \in {j \in 2..Len(n) : IsParamSeg(n[j])}}

\* PathParam(req, name) on a request whose context holds the entries ctx.
PathParam(ctx, name) ==
  IF \E p \in ctx : p.name = name THEN (CHOOSE p \in ctx : p.name = name).value ELSE <<>>

\* C12: the request the handler and the middleware of ServeHTTP are called
\* with gives, through PathParam, the decoded request segment for the name
\* of every parameter node on the matched path, two or more included, and
\* the empty string for every other name.
C12_PathParams ==
  (last.op = "ServeHTTP" /\ last.code = 0) =>
    LET w == RefWalkOf(baseRoute, last.req)
        params == ExpectedParams(w.node, last.req)
    IN w.found =>
         /\ \A p \in params : PathParam(last.ctx, p.name) = p.value
         /\ \A name \in {<<"a">>, <<"b">>, <<"i">>, <<"j">>} :
              (\A p \in params : p.name # name) => PathParam(last.ctx, name) = <<>>

-----------------------------------------------------------------------------
(* Specification SpecRedirect: requests with a trailing slash *)

\* Paths requested, escaped: /, /u, /u/, /u/j/, /u//, //, /u/%2F, /u/%2A/
RedirectRequestPaths ==
  { <<"/">>, <<"/", "u">>, <<"/", "u", "/">>, <<"/", "u", "/", "j", "/">>,
    <<"/", "u", "/", "/">>, <<"/", "/">>, <<"/", "u", "/", "%", "2", "F">>,
    <<"/", "u", "/", "%", "2", "A", "/">> }

\* Handlers on /u (GET), /u/j (ANY), /u/* (GET) and a not found handler;
\* a middleware on /.
NextRedirectRegister ==
  \/ \E reg \in { <<<<"/", "u">>, "GET">>, <<<<"/", "u", "/", "j">>, methodAny>>,
                  <<<<"/", "u", "/", "*">>, "GET">> } : RouteHandle(reg[1], reg[2])
  \/ NotFound(HandlerOf(<<>>, <<"/">>, notFound))
  \/ RouteMiddleware(<<"/">>, MiddlewareNamed(<<"/">>, "all", {}))

NextRedirectServe ==
  \E req \in {Request(m, <<>>, path) : path \in RedirectRequestPaths, m \in {"GET", "TRACE"}} : ServeHTTP(req)

NextRedirectHandler ==
  \E req \in {Request("GET", <<>>, path) : path \in RedirectRequestPaths} : HandlerAndMiddleware(req)

NextRedirect == NextRedirectRegister \/ NextRedirectServe \/ NextRedirectHandler

SpecRedirect == Init /\ [][NextRedirect]_vars

\* A path without the slashes it ends with.
Stripped(path) ==
  LET ends == {k \in 0..Len(path) : k = 0 \/ path[k] # "/"}
  IN SubSeq(path, 1, CHOOSE k \in ends : \A o \in ends : o <= k)

C14_HandlerRedirects ==
  last.op = "HandlerAndMiddleware" =>
    LET path == URLPath(last.req)
        to == IF Stripped(path) = <<>> THEN <<"/">> ELSE Stripped(path)
    IN (path # <<"/">> /\ path[Len(path)] = "/") =>
         /\ last.handler = RedirectHandler(RequestURI(to))
         /\ last.pattern = to

-----------------------------------------------------------------------------
(* Specification SpecRoute: Route calls on the root *)

\* Patterns: a, /a, /a/, /, /a/b, a/b/, /a/:x, /a/:b, /a/*
RoutePatterns ==
  { <<"a">>, <<"/", "a">>, <<"/", "a", "/">>, <<"/">>, <<"/", "a", "/", "b">>,
    <<"a", "/", "b", "/">>, <<"/", "a", "/", ":", "x">>, <<"/", "a", "/", ":", "b">>,
    <<"/", "a", "/", "*">> }

NextRoute == \E path \in RoutePatterns : RouteCall(Top, path)

SpecRoute == Init /\ [][NextRoute]_vars

\* The canonical form of a pattern: a leading "/" is put in when there is
\* none, a trailing "/" is taken off unless the pattern is "/".
Canonical(path) ==
  LET p == IF path[1] # "/" THEN <<"/">> \o path ELSE path
  IN IF p = <<"/">> THEN p ELSE Stripped(p)

\* C15: a Route call with a pattern whose canonical form was given to Route
\* before, whatever was registered in between, returns the node that call
\* returned and adds no node to the tree.
C15_RouteIdempotent ==
  [][last'.op = "Route" =>
       \A h \in routed :
         (h.on = last'.on /\ Canonical(h.path) = Canonical(last'.path)) =>
           (last'.ret = h.ret /\ baseRoute' = baseRoute)]_vars

-----------------------------------------------------------------------------
(* Specification SpecSubRoute: Route calls on the nodes Route returned *)

\* Patterns given to Route on the root: /, /a, /a/:x, /a/*
SubRoutePatterns ==
  { <<"/">>, <<"/", "a">>, <<"/", "a", "/", ":", "x">>, <<"/", "a", "/", "*">> }

\* Subpaths given to Route on a node: /, /b, b, /b/c
SubPaths == { <<"/">>, <<"/", "b">>, <<"b">>, <<"/", "b", "/", "c">> }

NextSubRoute ==
  \/ \E path \in SubRoutePatterns : RouteCall(Top, path)
  \/ \E h \in routed, q \in SubPaths : h.ret # Top /\ RouteCall(h.ret, q)

SpecSubRoute == Init /\ [][NextSubRoute]_vars

\* The path of subpath q below pattern p (a subpath with no leading "/" is
\* given one).
Below(p, q) ==
  IF Canonical(p) = <<"/">> THEN q
  ELSE Canonical(p) \o (IF q[1] # "/" THEN <<"/">> \o q ELSE q)

\* C16: n.Route(q) on the node n that Route(p) returned gives the node
\* Route(p + q) gives on the root, for a root, literal, parameter or
\* wildcard node n, and n itself for q = "/".
C16_SequentialRoute ==
  last.op = "Route" =>
    \A h \in routed :
      (h.on = Top /\ h.ret = last.on) =>
        /\ Route(baseRoute, Top, Below(h.path, last.path)).ret = last.ret
        /\ Route(baseRoute, Top, Below(h.path, last.path)).tree = baseRoute
        /\ last.path = <<"/">> => last.ret = last.on

-----------------------------------------------------------------------------
(* Specification SpecScope: the default tree and the trees of two hosts *)

ScopeHosts == {<<"a">>, <<"b">>}

\* The middleware of a Middleware or MiddlewareHost call, named after the
\* host ("" for the default tree) and the path of the call.
ScopeMiddleware(host, path) ==
  MiddlewareOf([path |-> path, host |-> host, verbs |-> {}, kind |-> "all", nth |-> 0], 1)

\* RouteHost(host, "/u").Get(h) and MiddlewareHost(host, "/", mw) for each host;
\* Route("/u").Get(h), Middleware("/", mw) and NotFound(h) on the default tree.
NextScopeRegister ==
  \/ \E host \in ScopeHosts : RouteHostHandle(host, <<"/", "u">>, "GET")
  \/ \E host \in ScopeHosts : MiddlewareHost(host, <<"/">>, ScopeMiddleware(host, <<"/">>))
  \/ RouteHandle(<<"/", "u">>, "GET")
  \/ RouteMiddleware(<<"/">>, ScopeMiddleware(<<>>, <<"/">>))
  \/ NotFound(HandlerOf(<<>>, <<"/">>, notFound))

\* Requests for /u and /k with no host, with a, with b
NextScopeHandler ==
  \E req \in {Request("GET", host, path) : host \in ScopeHosts \cup {<<>>}, path \in { <<"/", "u">>, <<"/", "k">> }} :
    HandlerAndMiddleware(req)

NextScope == NextScopeRegister \/ NextScopeHandler

SpecScope == Init /\ [][NextScope]_vars

\* What a tree holds was registered for host ("" for the default tree).
OwnedBy(tree, host) ==
  /\ \A hd \in Registered(tree) : hd[2] = host
  /\ \A mw \in Bound(tree) : mw.name.host = host

\* C17: a request whose host has a tree gets only what was registered in
\* that tree (never a handler, the not found handler or a middleware of the
\* default tree or of another host), a request whose host has none gets only
\* what the default tree holds, and the registrations of a host are in its
\* own tree alone.
C17_HostScoping ==
  /\ OwnedBy(baseRoute, <<>>)
  /\ \A e \in hostRoutes : OwnedBy(e.tree, e.host)
  /\ last.op = "HandlerAndMiddleware" =>
       LET host == last.req.host
           own == \E e \in hostRoutes : e.host = host
           tree == IF own THEN (CHOOSE e \in hostRoutes : e.host = host).tree ELSE baseRoute
       IN /\ \A i \in 1..Len(last.middleware) :
               /\ last.middleware[i] \in Bound(tree)
               /\ last.middleware[i].name.host = (IF own THEN host ELSE <<>>)
          /\ last.middleware = [i \in 1..Len(tree.middleware) |-> tree.middleware[i].mid]
          /\ IF own
               THEN last.handler \in Registered(tree) \cup {NilHandler}
               ELSE last.handler \in Registered(tree) \cup {DefaultNotFound}
          /\ (HandlerOf(IF own THEN host ELSE <<>>, last.req.path, "GET") \in Registered(tree))
               => last.handler = HandlerOf(IF own THEN host ELSE <<>>, last.req.path, "GET")

\* GET /u for host a, with a handler on /u in the tree of a, a handler on /u
\* and a middleware on / in the default tree: the handler of a, no
\* middleware.
C17_Witness ==
  /\ last.op = "HandlerAndMiddleware"
  /\ last.req = Request("GET", <<"a">>, <<"/", "u">>)
  /\ HandlerOf(<<>>, <<"/", "u">>, "GET") \in Registered(baseRoute)
  /\ ScopeMiddleware(<<>>, <<"/">>) \in Bound(baseRoute)
  /\ last.handler = HandlerOf(<<"a">>, <<"/", "u">>, "GET")
  /\ last.middleware = <<>>

-----------------------------------------------------------------------------
(* HandleHost, under specification SpecHost *)

\* The handlers registered in any tree of the ServeMux.
AllRegistered ==
  Registered(baseRoute) \cup UNION {Registered(e.tree) : e \in hostRoutes}

\* C18: after HandleHost(host, path, h), a request with that host and that
\* path, on a method with no handler of its own, resolves to h with the
\* pattern path (h is the handler named after host, path and ANY).
C18_HandleHost ==
  (last.op = "HandlerAndMiddleware" /\ last.req.method = "POST") =>
    LET h == HandlerOf(last.req.host, last.req.path, methodAny)
    IN (last.req.host # <<>> /\ h \in AllRegistered) =>
         (last.handler = h /\ last.pattern = last.req.path)

-----------------------------------------------------------------------------
(* Specification SpecAllow: the synthesized method not allowed handler *)

\* Keys a handler is registered for on /u
AllowKeys == {"GET", "DELETE", "PUT", "OPTIONS", methodAny, notFound}

NextAllowRegister == \E m \in AllowKeys : RouteHandle(<<"/", "u">>, m)

\* POST /u, HEAD /u and OPTIONS /u
NextAllowServe ==
  \E req \in {Request(m, <<>>, <<"/", "u">>) : m \in {"POST", "HEAD", "OPTIONS"}} : ServeHTTP(req)

NextAllow == NextAllowRegister \/ NextAllowServe

SpecAllow == Init /\ [][NextAllow]_vars

\* The entries of a header made of entries and separators in turn.
Entries(header) == [i \in 1..((Len(header) + 1) \div 2) |-> header[2 * i - 1]]

\* The methods with a handler on the node of the request's path.
MethodsAt(r, path) == {m \in Methods : HandlerOf(<<>>, path, m) \in Registered(r)}

\* C19: the synthesized handler answers 405 with an Allow header whose
\* entries, separated by ", ", are the methods that have a handler on the
\* matched node: each of them once, and neither ANY nor NOT_FOUND.
C19_AllowHeader ==
  (last.op = "ServeHTTP" /\ \E i \in 1..Len(last.events) :
      last.events[i].ev = "serve" /\ Is405(last.events[i].who)) =>
    LET entries == Entries(last.wrote.allow)
        allowed == MethodsAt(baseRoute, last.req.path)
    IN /\ last.wrote.status = 405
       /\ Len(last.wrote.allow) = 2 * Len(entries) - 1
       /\ \A i \in 1..(Len(entries) - 1) : last.wrote.allow[2 * i] = ", "
       /\ {entries[i] : i \in 1..Len(entries)} = allowed
       /\ Len(entries) = Cardinality(allowed)
       /\ allowed # {}

\* POST /u with handlers for GET, DELETE and NOT_FOUND on /u: 405 and the
\* two methods in the Allow header.
C19_Witness ==
  /\ last.op = "ServeHTTP"
  /\ last.req.method = "POST"
  /\ HandlerOf(<<>>, <<"/", "u">>, notFound) \in Registered(baseRoute)
  /\ last.wrote = [status |-> 405, allow |-> <<"DELETE", ", ", "GET">>]

\* C20: no call of the lookup or dispatch path aborts, whatever the method
\* of the request, the eight known ones or another such as TRACE: the
\* lookup returns, and ServeHTTP answers with a redirect or by serving a
\* handler.
C20_NeverAborts ==
  /\ last.op # "panic"
  /\ (last.op = "ServeHTTP" /\ last.code # 308) =>
       /\ \E i \in 1..Len(last.events) :
            last.events[i].ev = "serve" /\ last.events[i].who # NilHandler
       /\ \A i \in 1..Len(last.events) : last.events[i].ev # "panic"

-----------------------------------------------------------------------------
(* Specification SpecFailFast: MiddlewareFor and MiddlewareExceptFor with  *)
(* verbs the code does not know                                            *)

\* The loop `f = f | getVerbFlag(verb)` over the verbs in argument order:
\* [f, panic], where panic says that getVerbFlag met an unknown verb (the
\* loop ends there).
RECURSIVE VerbsLoop(_, _)
VerbsLoop(verbs, f) ==
  IF verbs = <<>> THEN [f |-> f, panic |-> FALSE]
  ELSE IF ~KnownVerb(Head(verbs)) THEN [f |-> f, panic |-> TRUE]
  ELSE VerbsLoop(Tail(verbs), BitOr(f, getVerbFlag(Head(verbs))))

\* BindVerbs with one binding appended for each verb as the loop meets it.
RECURSIVE BindEachVerb(_, _, _, _)
BindEachVerb(mids, kind, mw, verbs) ==
  IF verbs = <<>> THEN [middleware |-> mids, panic |-> FALSE]
  ELSE IF ~KnownVerb(Head(verbs)) THEN [middleware |-> mids, panic |-> TRUE]
  ELSE BindEachVerb(Append(mids, [mid |-> mw,
                                  verb |-> IF kind = "for" THEN getVerbFlag(Head(verbs))
                                           ELSE BitNot(getVerbFlag(Head(verbs)))]),
                    kind, mw, Tail(verbs))

\* Route.MiddlewareFor (kind "for") and Route.MiddlewareExceptFor (kind
\* "except") on a node whose middleware list is mids, with the verbs in
\* argument order: [middleware, panic], the list afterwards and whether the
\* call panicked.
BindVerbs(mids, kind, mw, verbs) ==
  IF verbs = <<>>
    THEN [middleware |-> IF kind = "for" THEN mids
                         ELSE Append(mids, [mid |-> mw, verb |-> flagAny]),
          panic |-> FALSE]
  ELSE LET l == VerbsLoop(verbs, 0)
           f == IF kind = "for" THEN l.f ELSE BitNot(l.f)
       IN IF l.panic THEN [middleware |-> mids, panic |-> TRUE]
          ELSE IF f = 0 THEN [middleware |-> mids, panic |-> FALSE]
          ELSE [middleware |-> Append(mids, [mid |-> mw, verb |-> f]), panic |-> FALSE]

\* s.Route(path).MiddlewareFor(mw, verbs...) and
\* s.Route(path).MiddlewareExceptFor(mw, verbs...), for any verb strings; the
\* call is recorded with the node it was made on, that node's middleware
\* list before the call and whether the call panicked.
RouteMiddlewareVerbs(path, kind, mw, verbs) ==
  /\ nregs < MaxRegs
  /\ LET c == Route(baseRoute, Top, path)
         n == NodeAt(c.tree, c.ret)
         b == BindVerbs(n.middleware, kind, mw, verbs)
     IN /\ baseRoute' = ReplaceAt(c.tree, c.ret, [n EXCEPT !.middleware = b.middleware])
        /\ last' = [op |-> "MiddlewareVerbs", kind |-> kind, on |-> c.ret, verbs |-> verbs,
                    before |-> n.middleware, panic |-> b.panic]
  /\ nregs' = nregs + 1
  /\ UNCHANGED <<hostRoutes, pool, routed, inflight, heap>>

\* Argument lists: no verb, known verbs, the eight methods, and lists with a
\* verb the code does not know in the first, the last and the only place
FailFastLists ==
  {<<>>, <<"GET">>, <<"llama">>, <<"llama", "GET">>, <<"GET", "OPTIONS", "llama">>,
   <<"GET", "HEAD", "POST", "PUT", "PATCH", "DELETE", "CONNECT", "OPTIONS">>}

FailFastPaths == {<<"/", "a">>}

NextFailFastRegister ==
  \E path \in FailFastPaths, kind \in VerbKinds, verbs \in FailFastLists :
    RouteMiddlewareVerbs(path, kind, MiddlewareOf([verbs |-> verbs, kind |-> kind], 1), verbs)

NextFailFastHandler ==
  \E req \in {Request(m, <<>>, path) : path \in FailFastPaths, m \in {"GET", "PUT"}} :
    HandlerAndMiddleware(req)

NextFailFast == NextFailFastRegister \/ NextFailFastHandler

SpecFailFast == Init /\ [][NextFailFast]_vars

\* C21: a MiddlewareFor or MiddlewareExceptFor call with a verb that is not
\* one of the eight methods panics, and the middleware list of the node is
\* the one it had before the call, wherever the unknown verb stands in the
\* argument list.
C21_UnknownVerbPanics ==
  (last.op = "MiddlewareVerbs" /\ \E i \in 1..Len(last.verbs) : last.verbs[i] \notin Methods) =>
    /\ last.panic
    /\ NodeAt(baseRoute, last.on).middleware = last.before

\* MiddlewareFor(mw, GET, OPTIONS, llama) on a node that has a middleware
\* already: the call panicked and the node has that middleware alone.
C21_Witness ==
  /\ last.op = "MiddlewareVerbs"
  /\ last.kind = "for"
  /\ last.verbs = <<"GET", "OPTIONS", "llama">>
  /\ last.panic
  /\ Len(last.before) = 1
  /\ NodeAt(baseRoute, last.on).middleware = last.before

-----------------------------------------------------------------------------
(* Specification SpecRename: a second parameter name at one place *)

\* Patterns with a handler: /u/:a, /u/:a/i, /u/:b/i
RenameHandles ==
  { <<"/", "u", "/", ":", "a">>, <<"/", "u", "/", ":", "a", "/", "i">>,
    <<"/", "u", "/", ":", "b", "/", "i">> }

\* Patterns given to Route alone: /u/:a, /u/:b
RenamePatterns == { <<"/", "u", "/", ":", "a">>, <<"/", "u", "/", ":", "b">> }

\* Paths requested: /u/x, /u/x/i
RenameRequestPaths == { <<"/", "u", "/", "x">>, <<"/", "u", "/", "x", "/", "i">> }

NextRenameRegister ==
  \/ \E path \in RenameHandles : RouteHandle(path, "GET")
  \/ \E path \in RenamePatterns : RouteCall(Top, path)

NextRenameHandler ==
  \E req \in {Request("GET", <<>>, path) : path \in RenameRequestPaths} : HandlerAndMiddleware(req)

NextRename == NextRenameRegister \/ NextRenameHandler

SpecRename == Init /\ [][NextRename]_vars

\* What a GET request for path gets in the default tree r.
GetIn(r, path) == Lookup(r, {}, Request("GET", <<>>, path), createExecution)

\* C23: a Route call whose last segment is a parameter, on a parent that has
\* a parameter child with another name, returns that child and leaves the
\* tree as it is, and every request that got a registered handler before
\* the call gets it after the call.
C23_ParamRename ==
  [][(last'.op = "Route" /\ last'.on = Top) =>
       LET parts == RouteParts(baseRoute, last'.path)
           up == SubSeq(parts, 1, Len(parts) - 1)
       IN \A n \in NodesOf(baseRoute) :
            ( /\ Len(parts) > 1
              /\ n.fullPath = JoinSegs(Tail(up))
              /\ IsParamSeg(parts[Len(parts)])
              /\ n.paramChild # <<>>
              /\ n.paramChild[1].pattern # parts[Len(parts)] )
            => /\ last'.ret = up \o <<n.paramChild[1].pattern>>
               /\ baseRoute' = baseRoute
               /\ \A path \in RenameRequestPaths :
                    Len(GetIn(baseRoute, path).handler) = 4 =>
                      GetIn(baseRoute', path).handler = GetIn(baseRoute, path).handler]_vars

\* Every Route call that names the parameter child by the name it has
\* returns it and leaves the tree as it is.
RenameSameName ==
  [][(last'.op = "Route" /\ last'.on = Top) =>
       LET parts == RouteParts(baseRoute, last'.path)
           up == SubSeq(parts, 1, Len(parts) - 1)
       IN \A n \in NodesOf(baseRoute) :
            ( /\ n.fullPath = JoinSegs(Tail(up))
              /\ n.paramChild # <<>>
              /\ n.paramChild[1].pattern = parts[Len(parts)] )
            => (last'.ret = parts /\ baseRoute' = baseRoute)]_vars

-----------------------------------------------------------------------------
(* Specification SpecWildcard: Route calls through and on wildcard nodes *)

\* Patterns given to Route on the root: /a, /a/*, /a/*/b, /*, /*/b/c
WildcardPatterns ==
  { <<"/", "a">>, <<"/", "a", "/", "*">>, <<"/", "a", "/", "*", "/", "b">>,
    <<"/", "*">>, <<"/", "*", "/", "b", "/", "c">> }

\* Subpaths given to Route on a wildcard node: /b, /:x, /*
WildcardSubPaths == { <<"/", "b">>, <<"/", ":", "x">>, <<"/", "*">> }

NextWildcardRoute == \E path \in WildcardPatterns : RouteCall(Top, path)

NextWildcardSubRoute ==
  \E h \in routed, q \in WildcardSubPaths :
    NodeAt(baseRoute, h.ret).isWildcard /\ RouteCall(h.ret, q)

NextWildcard == NextWildcardRoute \/ NextWildcardSubRoute

SpecWildcard == Init /\ [][NextWildcard]_vars

\* The pattern has segments after a "*" segment.
BelowWildcard(path) ==
  \E i \in 1..(Len(Segs(Canonical(path))) - 1) : IsWildSeg(Segs(Canonical(path))[i])

\* C24: no wildcard node of the tree has a child of any kind, and a Route
\* call on the root with segments after "*" returns the wildcard node.
C24_WildcardLeaves ==
  /\ \A n \in NodesOf(baseRoute) : n.isWildcard => getChildren(n) = <<>>
  /\ (last.op = "Route" /\ last.on = Top /\ BelowWildcard(last.path))
       => NodeAt(baseRoute, last.ret).isWildcard

\* The first Route call that reaches "*" returns the wildcard node, a leaf,
\* whatever segments follow.
WildcardFirstCall ==
  [][(last'.op = "Route" /\ last'.on = Top /\ BelowWildcard(last'.path)
        /\ \A n \in NodesOf(baseRoute) : ~n.isWildcard)
       => LET n == NodeAt(baseRoute', last'.ret)
          IN n.isWildcard /\ getChildren(n) = <<>>]_vars

-----------------------------------------------------------------------------
(* Specification SpecDecode: Route.execute on paths with escapes *)

\* Route.execute called on the default tree with a new execution record and
\* any path string: the call, the segments it handed to getExecution and
\* the record it filled.
Execute(method, pattern) ==
  /\ last' = [op |-> "execute", method |-> method, pattern |-> pattern,
              parts |-> PathParts(pattern),
              ex |-> execute(baseRoute, createExecution, method, pattern)]
  /\ UNCHANGED <<baseRoute, hostRoutes, pool, nregs, routed, inflight, heap>>

\* Patterns with a handler: /u/:a, /u/:a/i, /u/:a/:b
DecodePaths ==
  { <<"/", "u", "/", ":", "a">>, <<"/", "u", "/", ":", "a", "/", "i">>,
    <<"/", "u", "/", ":", "a", "/", ":", "b">> }

\* Paths looked up: /u/x, /u/%2F, /u/%2A/i, /u/%zz, /u/%, /u/%zz/i, /u/x/%2z
DecodeRequestPaths ==
  { <<"/", "u", "/", "x">>, <<"/", "u", "/", "%", "2", "F">>,
    <<"/", "u", "/", "%", "2", "A", "/", "i">>, <<"/", "u", "/", "%", "z", "z">>,
    <<"/", "u", "/", "%">>, <<"/", "u", "/", "%", "z", "z", "/", "i">>,
    <<"/", "u", "/", "x", "/", "%", "2", "z">> }

NextDecodeRegister == \E path \in DecodePaths : RouteHandle(path, "GET")

NextDecodeExecute == \E path \in DecodeRequestPaths : Execute("GET", path)

NextDecode == NextDecodeRegister \/ NextDecodeExecute

SpecDecode == Init /\ [][NextDecode]_vars

\* The place of the node the walk for a path string ends on in tree r.
WalkOf(r, pattern) == RefWalkOf(r, Request("GET", <<>>, pattern)).node

\* C25: for every parameter node on the way of a lookup whose request
\* segment cannot be percent-decoded, the execution holds the raw request
\* segment as the value of the parameter.
C25_RawOnDecodeError ==
  last.op = "execute" =>
    LET n == WalkOf(baseRoute, last.pattern)
    IN \A i \in 2..Len(n) :
         (IsParamSeg(n[i]) /\ PathUnescape(Segs(last.pattern)[i]).err) =>
           [name |-> Tail(n[i]), value |-> Segs(last.pattern)[i]] \in last.ex.params

\* A lookup matches the parameter node whether or not the segment can be
\* decoded, and holds the decoded segment as the value when it can be; when
\* it cannot, the value is the empty string.
DecodeMatches ==
  last.op = "execute" =>
    LET n == WalkOf(baseRoute, last.pattern)
    IN /\ RefWalkOf(baseRoute, Request("GET", <<>>, last.pattern)).found
            => last.ex.pattern = PatternOf(n)
       /\ \A i \in 2..Len(n) :
            IsParamSeg(n[i]) =>
              [name |-> Tail(n[i]),
               value |-> IF PathUnescape(Segs(last.pattern)[i]).err THEN <<>>
                         ELSE UnescapeFrom(Segs(last.pattern)[i], 1)] \in last.ex.params

-----------------------------------------------------------------------------
(* Specification SpecPool: execution records taken from the free-list and  *)
(* given back                                                              *)

\* ex := pool.Get(); r.execute(ex, method, pattern); pool.Put(ex) on the
\* default tree: the call, the record as the free-list handed it out and as
\* the lookup filled it.
PoolCycle(method, pattern) ==
  /\ \E a \in Acquire(pool) :
       LET ex == execute(baseRoute, a.ex, method, pattern)
       IN /\ last' = [op |-> "cycle", method |-> method, pattern |-> pattern,
                      got |-> a.ex, ex |-> ex]
          /\ pool' = Release(a.rest, ex)
  /\ UNCHANGED <<baseRoute, hostRoutes, nregs, routed, inflight, heap>>

\* Registrations: GET on /u and on /u/:a, NOT_FOUND on /u, a middleware on /u
NextPoolRegister ==
  \/ \E path \in {<<"/", "u">>, <<"/", "u", "/", ":", "a">>} : RouteHandle(path, "GET")
  \/ RouteHandle(<<"/", "u">>, notFound)
  \/ RouteMiddleware(<<"/", "u">>, MiddlewareNamed(<<"/", "u">>, "all", {}))

\* Lookups: /, /u, /u/x, /u/x/z, /k/z with GET and OPTIONS
NextPoolCycle ==
  \E path \in {<<"/">>, <<"/", "u">>, <<"/", "u", "/", "x">>,
               <<"/", "u", "/", "x", "/", "z">>, <<"/", "k", "/", "z">>},
     m \in {"GET", "OPTIONS"} :
    PoolCycle(m, path)

NextPool == NextPoolRegister \/ NextPoolCycle

SpecPool == Init /\ [][NextPool]_vars

\* C26: the record the free-list hands out is zeroed (no handler, no not
\* found handler, no middleware, no parameter, the empty pattern), and the
\* lookup fills it as it fills a record just created.
C26_ZeroedRecords ==
  last.op = "cycle" =>
    /\ last.got = createExecution
    /\ last.ex = execute(baseRoute, createExecution, last.method, last.pattern)

\* The record handed out is zeroed but for its pattern, and the lookup
\* fills every other field as it fills those of a record just created.
ZeroedButPattern ==
  last.op = "cycle" =>
    /\ [last.got EXCEPT !.pattern = <<>>] = createExecution
    /\ [last.ex EXCEPT !.pattern = <<>>] =
         [execute(baseRoute, createExecution, last.method, last.pattern) EXCEPT !.pattern = <<>>]

-----------------------------------------------------------------------------
(* Specification SpecStop: lookups whose descent stops *)

\* The registrations: a path and the key the handler is registered for.
StopRegs ==
  { <<<<"/">>, "OPTIONS">>, <<<<"/">>, "GET">>,
    <<<<"/", "a">>, "GET">>, <<<<"/", "a">>, "OPTIONS">>, <<<<"/", "a">>, methodAny>>,
    <<<<"/", "a">>, notFound>>,
    <<<<"/", "a", "/", "b">>, "POST">>, <<<<"/", "a", "/", "*">>, "GET">> }

\* Paths looked up: /k, /a/k, /a/b/k, /a/b, /a/k/z
StopRequestPaths ==
  { <<"/", "k">>, <<"/", "a", "/", "k">>, <<"/", "a", "/", "b", "/", "k">>,
    <<"/", "a", "/", "b">>, <<"/", "a", "/", "k", "/", "z">> }

NextStopRegister == \E reg \in StopRegs : RouteHandle(reg[1], reg[2])

NextStopExecute == \E path \in StopRequestPaths, m \in Methods : Execute(m, path)

NextStop == NextStopRegister \/ NextStopExecute

SpecStop == Init /\ [][NextStop]_vars

\* The descent of the last lookup stopped: the rule finds no child for a
\* segment of the path.
Stopped == last.op = "execute" /\ ~RefWalkOf(baseRoute, Request(last.method, <<>>, last.pattern)).found

-----------------------------------------------------------------------------
(* Specification SpecSplit: the segments Route.execute cuts a path into *)

MaxPathLen == 5

\* The strings of up to n of the characters "/", "a", "b"
RECURSIVE SplitStrings(_)
SplitStrings(n) ==
  IF n = 0 THEN {<<>>}
  ELSE LET S == SplitStrings(n - 1)
       IN S \cup {Append(s, c) : s \in S, c \in {"/", "a", "b"}}

\* The request paths: the strings that start with "/"
SplitPaths == {s \in SplitStrings(MaxPathLen) : s # <<>> /\ s[1] = "/"}

\* Registrations: GET on /a/b, /a//b, /b
NextSplitRegister ==
  \E path \in {<<"/", "a", "/", "b">>, <<"/", "a", "/", "/", "b">>, <<"/", "b">>} :
    RouteHandle(path, "GET")

NextSplitExecute == \E path \in SplitPaths : Execute("GET", path)

NextSplit == NextSplitRegister \/ NextSplitExecute

SpecSplit == Init /\ [][NextSplit]_vars

\* The path has two slashes in a row after its first character.
SlashPair(path) == \E i \in 2..(Len(path) - 1) : path[i] = "/" /\ path[i + 1] = "/"

\* C28: the segments Route.execute hands to getExecution are the root
\* segment and the parts between every "/" of the path (the root segment
\* alone for "/"), the decomposition strings.Split gives Route.
C28_SplitsOnEverySlash ==
  last.op = "execute" => last.parts = Segs(last.pattern)

\* For a path without two slashes in a row after its first character the
\* segments are those of strings.Split, single-character segments included.
SplitWithoutSlashPair ==
  (last.op = "execute" /\ ~SlashPair(last.pattern)) => last.parts = Segs(last.pattern)

\* A route registered with an empty segment is found by no lookup of its
\* own pattern.
SplitHidesRoute ==
  (last.op = "execute" /\ last.pattern = <<"/", "a", "/", "/", "b">>)
    => last.ex.handler = NilHandler

-----------------------------------------------------------------------------
(* Specification SpecSorted: the literal children of a node *)

\* Patterns given to Route on the root: /b, /a, /ab, /A, /k, /a/b, /a/a,
\* /:x, /*
SortedPatterns ==
  { <<"/", "b">>, <<"/", "a">>, <<"/", "a", "b">>, <<"/", "A">>, <<"/", "k">>,
    <<"/", "a", "/", "b">>, <<"/", "a", "/", "a">>, <<"/", ":", "x">>, <<"/", "*">> }

\* Subpaths given to Route on a node an earlier call returned: /b, /a, /
SortedSubPaths == { <<"/", "b">>, <<"/", "a">>, <<"/">> }

\* Segments searched for
SortedSegs ==
  { <<>>, <<"a">>, <<"b">>, <<"a", "b">>, <<"A">>, <<"k">>, <<"c">>, <<":", "x">>, <<"*">> }

NextSortedRoute == \E path \in SortedPatterns : RouteCall(Top, path)

NextSortedSubRoute ==
  \E h \in routed, q \in SortedSubPaths : h.ret # Top /\ RouteCall(h.ret, q)

NextSorted == NextSortedRoute \/ NextSortedSubRoute

SpecSorted == Init /\ [][NextSorted]_vars

\* The places of the nodes of the tree: every node was returned by a Route
\* call or is on the way to one that was.
Places == {Top} \cup UNION {{SubSeq(h.ret, 1, k) : k \in 1..Len(h.ret)} : h \in routed}

\* The segments Route calls asked for below the place p.
AskedBelow(p) ==
  {h.ret[Len(p) + 1] : h \in {g \in routed : Len(g.ret) > Len(p) /\ SubSeq(g.ret, 1, Len(p)) = p}}

\* C29: the literal children of every node are in the strict order of their
\* segments (sorted, no segment twice), the parameter and the wildcard child
\* are not among them, and childList.Search finds a child for a segment
\* exactly when a Route call asked for that literal segment below the node.
C29_SortedChildren ==
  \A p \in Places :
    LET l == NodeAt(baseRoute, p).children
    IN /\ \A i \in 1..Len(l) : \A j \in 1..Len(l) :
            i < j => StrLess(l[i].pattern, l[j].pattern)
       /\ \A seg \in SortedSegs :
            /\ Search(l, seg) # <<>> <=>
                 (seg \in AskedBelow(p) /\ ~IsParamSeg(seg) /\ ~IsWildSeg(seg))
            /\ Search(l, seg) # <<>> => Search(l, seg)[1].pattern = seg

\* Three Route calls, the last one for /A: the root has the children A, a
\* and b in this order, and the search finds A.
C29_Witness ==
  /\ last.op = "Route"
  /\ last.path = <<"/", "A">>
  /\ Cardinality(routed) = 3
  /\ [i \in 1..Len(baseRoute.children) |-> baseRoute.children[i].pattern]
       = << <<"A">>, <<"a">>, <<"b">> >>
  /\ Search(baseRoute.children, <<"A">>) # <<>>

-----------------------------------------------------------------------------
(* Specification SpecSegments: the segment and the kind of every node *)

\* Patterns given to Route on the root: /a, a, /a/, /a/b, /a/:x, /*, /a//b,
\* /: (one parameter name at most under a node, so that every node a call
\* returned stays in the tree)
SegmentPatterns ==
  { <<"/", "a">>, <<"a">>, <<"/", "a", "/">>, <<"/", "a", "/", "b">>,
    <<"/", "a", "/", ":", "x">>, <<"/", "*">>, <<"/", "a", "/", "/", "b">>,
    <<"/", ":">> }

\* Subpaths given to Route on a node an earlier call returned: /, /b, b
SegmentSubPaths == { <<"/">>, <<"/", "b">>, <<"b">> }

NextSegmentsRoute == \E path \in SegmentPatterns : RouteCall(Top, path)

NextSegmentsSubRoute ==
  \E h \in routed, q \in SegmentSubPaths : h.ret # Top /\ RouteCall(h.ret, q)

NextSegments == NextSegmentsRoute \/ NextSegmentsSubRoute

SpecSegments == Init /\ [][NextSegments]_vars

\* The nodes of the default tree but its root.
Inner == NodesOf(baseRoute) \ {baseRoute}

\* C30: the segment of every node but the root is not empty; a node is a
\* parameter node iff its segment starts with ":", and its paramName is then
\* not empty; a node is a wildcard node iff its segment is "*"; no node is
\* both.
C30_SegmentKinds ==
  \A n \in Inner :
    /\ n.pattern # <<>>
    /\ n.isParam <=> HasPrefix(n.pattern, <<":">>)
    /\ n.isParam => n.paramName # <<>>
    /\ n.isWildcard <=> n.pattern = <<"*">>
    /\ ~(n.isParam /\ n.isWildcard)

\* The kind of every node is the one its segment says, and no node is of
\* both kinds (the segment and the paramName may be empty).
KindBySegment ==
  \A n \in Inner :
    /\ n.isParam <=> HasPrefix(n.pattern, <<":">>)
    /\ n.isParam => n.paramName = TrimLeft(n.pattern, ":")
    /\ n.isWildcard <=> n.pattern = <<"*">>
    /\ ~(n.isParam /\ n.isWildcard)

-----------------------------------------------------------------------------
(* Specification SpecConcurrent: lookups by goroutines that run at the same *)
(* time, on a tree whose registration has finished                          *)

\* The requests started, over all goroutines
MaxFlights == 3

\* The capacity of a path-segment buffer: make([]string, 0, 5).  The paths
\* looked up have five segments at most, so that append never moves the
\* segments to a new array.
PartsCap == 5

\* What getExecution and the fallback to the not found handler leave in an
\* execution record for the caller.
ResultOf(ex) ==
  [handler |-> ex.handler, middleware |-> ex.middleware, pattern |-> ex.pattern,
   params |-> ex.params]

\* PoolGet that leaves the item it hands out in the pool.
PoolGetKeep(free, made) ==
  {[id |-> i, free |-> free, new |-> FALSE] : i \in free}
    \cup {[id |-> made + 1, free |-> free, new |-> TRUE]}

\* sync.Pool.Get on a pool that holds the items free, when made items exist:
\* one of the items of the pool, taken out of it, or a new item from New
\* (a sync.Pool may return a new item whatever it holds).
PoolGet(free, made) ==
  {[id |-> i, free |-> free \ {i}, new |-> FALSE] : i \in free}
    \cup {[id |-> made + 1, free |-> free, new |-> TRUE]}

\* The array of a buffer after the slice [0:0] of it was filled with parts:
\* what the array held beyond them is still there.
Filled(array, parts) == parts \o SubSeq(array, Len(parts) + 1, Len(array))

\* A goroutine starts to serve a request: it takes an execution record from
\* the free-list.
Begin(p, req) ==
  /\ inflight[p].pc = "idle"
  /\ heap.started < MaxFlights
  /\ \E g \in PoolGet(heap.freeEx, Len(heap.exs)) :
       /\ heap' = [heap EXCEPT !.exs = IF g.new THEN Append(@, createExecution) ELSE @,
                               !.freeEx = g.free,
                               !.started = @ + 1]
       /\ inflight' = [inflight EXCEPT ![p] = [Idle EXCEPT !.pc = "execute", !.req = req,
                                                            !.ex = g.id]]
  /\ UNCHANGED <<baseRoute, hostRoutes, pool, last, nregs, routed>>

\* Route.execute up to the call of getExecution: a buffer is taken from
\* pathPartsPool and the slice [0:0] of it filled with the segments of the
\* path.
CutPath(p) ==
  /\ inflight[p].pc = "execute"
  /\ LET parts == PathParts(inflight[p].req.path)
     IN /\ Len(parts) <= PartsCap
        /\ \E g \in PoolGet(heap.freeBuf, Len(heap.bufs)) :
             /\ heap' = [heap EXCEPT
                           !.bufs = IF g.new THEN Append(@, parts)
                                    ELSE [@ EXCEPT ![g.id] = Filled(@, parts)],
                           !.freeBuf = g.free]
             /\ inflight' = [inflight EXCEPT ![p].pc = "walk", ![p].buf = g.id,
                                             ![p].len = Len(parts), ![p].off = 0,
                                             ![p].cur = Top]
  /\ UNCHANGED <<baseRoute, hostRoutes, pool, last, nregs, routed>>

\* One turn of the loop of getExecution: the node is read from the tree,
\* the segments from the buffer, and the execution record is written.
WalkStep(p) ==
  /\ inflight[p].pc = "walk"
  /\ LET f == inflight[p]
         tree == TreeFor(baseRoute, hostRoutes, f.req)
         curRoute == NodeAt(tree, f.cur)
         pathParts == SubSeq(heap.bufs[f.buf], f.off + 1, f.len)
         ex4 == Visit(curRoute, f.req.method, pathParts, heap.exs[f.ex])
         child == IF Len(pathParts) > 1 THEN NextChild(curRoute, pathParts[2]) ELSE <<>>
     IN IF Len(pathParts) = 1 \/ curRoute.isWildcard
          THEN /\ heap' = [heap EXCEPT !.exs[f.ex] =
                             [getHandler(curRoute, f.req.method, ex4) EXCEPT
                                !.pattern = IF curRoute.fullPath = <<>> THEN <<"/">>
                                            ELSE curRoute.fullPath]]
               /\ inflight' = [inflight EXCEPT ![p].pc = "putparts"]
          ELSE /\ heap' = [heap EXCEPT !.exs[f.ex] = ex4]
               /\ inflight' = IF child # <<>>
                                THEN [inflight EXCEPT ![p].cur = Append(@, child[1].pattern),
                                                      ![p].off = @ + 1]
                                ELSE [inflight EXCEPT ![p].pc = "putparts"]
  /\ UNCHANGED <<baseRoute, hostRoutes, pool, last, nregs, routed>>

\* The end of Route.execute: the buffer goes back to pathPartsPool.
PutParts(p) ==
  /\ inflight[p].pc = "putparts"
  /\ heap' = [heap EXCEPT !.freeBuf = @ \cup {inflight[p].buf}]
  /\ inflight' = [inflight EXCEPT ![p].pc = "return", ![p].buf = 0]
  /\ UNCHANGED <<baseRoute, hostRoutes, pool, last, nregs, routed>>

\* The end of the request: the not found handler is taken when there is no
\* handler, the result is read from the record, and the record goes back to
\* the free-list.
Finish(p) ==
  /\ inflight[p].pc = "return"
  /\ LET f == inflight[p]
         ex0 == heap.exs[f.ex]
         ex == IF ex0.handler = NilHandler THEN [ex0 EXCEPT !.handler = ex0.notFound] ELSE ex0
     IN /\ inflight' = [inflight EXCEPT ![p].pc = "idle", ![p].ex = 0,
                                        ![p].result = <<ResultOf(ex)>>]
        /\ heap' = [heap EXCEPT !.exs[f.ex] = Put(ex), !.freeEx = @ \cup {f.ex}]
  /\ UNCHANGED <<baseRoute, hostRoutes, pool, last, nregs, routed>>

\* The tree the lookups run on: GET on /u, /u/:a and /u/j, NOT_FOUND on /u,
\* and a middleware on /u for every verb.
ConcurrentTree ==
  LET t0 == SetHandler(newRoute, Top, notFound, DefaultNotFound)
      c1 == Route(t0, Top, <<"/", "u">>)
      t1 == SetHandler(c1.tree, c1.ret, "GET", HandlerOf(<<>>, <<"/", "u">>, "GET"))
      t2 == SetHandler(t1, c1.ret, notFound, HandlerOf(<<>>, <<"/", "u">>, notFound))
      t3 == Middleware(t2, c1.ret, MiddlewareOf(<<"/", "u">>, 1))
      c4 == Route(t3, Top, <<"/", "u", "/", ":", "a">>)
      t4 == SetHandler(c4.tree, c4.ret, "GET",
                       HandlerOf(<<>>, <<"/", "u", "/", ":", "a">>, "GET"))
  IN t4

\* The requests: GET /u, GET /u/x, GET /u/x/z, GET /k/z, POST /u
ConcurrentRequests ==
  { Request("GET", <<>>, <<"/", "u">>), Request("GET", <<>>, <<"/", "u", "/", "x">>),
    Request("GET", <<>>, <<"/", "u", "/", "x", "/", "z">>),
    Request("GET", <<>>, <<"/", "k", "/", "z">>), Request("POST", <<>>, <<"/", "u">>) }

\* The registration has finished and no request was served yet.
InitConcurrent ==
  /\ baseRoute = ConcurrentTree
  /\ hostRoutes = {}
  /\ pool = {}
  /\ last = NoCall
  /\ nregs = 0
  /\ routed = {}
  /\ inflight = NoFlights
  /\ heap = EmptyHeap

NextConcurrent ==
  \E p \in 1..NumProcs :
    \/ \E req \in ConcurrentRequests : Begin(p, req)
    \/ CutPath(p)
    \/ WalkStep(p)
    \/ PutParts(p)
    \/ Finish(p)

SpecConcurrent == InitConcurrent /\ [][NextConcurrent]_vars

\* No execution record and no buffer is held by two requests in flight.
ExclusiveHolding ==
  \A p \in 1..NumProcs : \A q \in 1..NumProcs :
    p # q =>
      /\ inflight[p].ex # 0 => inflight[p].ex # inflight[q].ex
      /\ inflight[p].buf # 0 => inflight[p].buf # inflight[q].buf

\* What each request gets when it is looked up alone in the tree, with a new
\* record.
AloneResults ==
  {[req |-> req, result |-> ResultOf(Lookup(ConcurrentTree, {}, req, createExecution))] :
     req \in ConcurrentRequests}

Alone(req) == (CHOOSE a \in AloneResults : a.req = req).result

\* Every request that ended got what it gets alone.
SameAsAlone ==
  \A p \in 1..NumProcs :
    inflight[p].result # <<>> => inflight[p].result[1] = Alone(inflight[p].req)

\* Every request that ended got the handler, the middleware and the
\* parameters it gets alone.
SameAsAloneButPattern ==
  \A p \in 1..NumProcs :
    inflight[p].result # <<>> =>
      [inflight[p].result[1] EXCEPT !.pattern = <<>>]
        = [Alone(inflight[p].req) EXCEPT !.pattern = <<>>]

\* No step of a lookup has written to a routing tree.
TreesNotWritten == baseRoute = ConcurrentTree /\ hostRoutes = {}

\* C22: while requests are looked up at the same time, no execution record
\* and no buffer is held by two of them, no step of a lookup writes to a
\* routing tree, and every request that ends gets the handler, middleware,
\* pattern and parameters it gets when it is looked up alone.
C22_NoInterference == ExclusiveHolding /\ TreesNotWritten /\ SameAsAlone

\* The same without the pattern: the parts of C22 that hold.
NoInterferenceButPattern == ExclusiveHolding /\ TreesNotWritten /\ SameAsAloneButPattern

\* Two requests are in the walk at the same time, one of them with a
\* recycled record.
ConcurrentWalks ==
  /\ inflight[1].pc = "walk" /\ inflight[2].pc = "walk"
  /\ Len(heap.exs) = 2 /\ heap.started = 3

====
